---- MODULE Spec2Model ----
(***************************************************************************)
(* A model of the RUBE MCP proxy server (rube_proxy_server.py), of the     *)
(* scripts that drive it (test_complete_integration.py,                    *)
(* advanced_workflows.py, demo_voice_automation.py), of the proxy client   *)
(* (proxy_rube_integration.py) and of the generated start/deploy scripts.  *)
(*                                                                         *)
(* Text is a sequence of one-character strings, so that lower-casing,      *)
(* substring search, joining and integer formatting are computed and not   *)
(* assumed.  A JSON value is a record [t, v] tagged with its JSON type.    *)
(***************************************************************************)
EXTENDS Integers, Sequences, FiniteSets, TLC

\* ------------------------------------------------------------------ bounds
MaxFrags == 2
MaxTools == 2
MaxHashK == 4
MaxJobs == 2
MaxOdd == 2

\* ------------------------------------------------------------- JSON values
JStr(s)  == [t |-> "str",  v |-> s]
JInt(n)  == [t |-> "int",  v |-> n]
JList(l) == [t |-> "list", v |-> l]
JObj(o)  == [t |-> "obj",  v |-> o]
JNull    == [t |-> "null", v |-> 0]

\* dict.get(key, default); a dict is a function from its keys
Get(d, key, default) == IF key \in DOMAIN d THEN d[key] ELSE default

\* ------------------------------------------------------------------- text
Upper == <<"A","B","C","D","E","F","G","H","I","J","K","L","M",
           "N","O","P","Q","R","S","T","U","V","W","X","Y","Z">>
Lower == <<"a","b","c","d","e","f","g","h","i","j","k","l","m",
           "n","o","p","q","r","s","t","u","v","w","x","y","z">>

\* str.lower() on one character
LowerChar(c) ==
  IF \E i \in 1..26 : Upper[i] = c
  THEN Lower[CHOOSE i \in 1..26 : Upper[i] = c]
  ELSE c

\* str.lower()
lower(s) == [i \in 1..Len(s) |-> LowerChar(s[i])]

\* s.startswith(p)
StartsWith(s, p) == Len(p) <= Len(s) /\ SubSeq(s, 1, Len(p)) = p

\* `sub in s` for strings: scan the start positions left to right
RECURSIVE In(_, _)
In(sub, s) ==
  IF Len(sub) > Len(s) THEN FALSE
  ELSE IF StartsWith(s, sub) THEN TRUE
  ELSE In(sub, Tail(s))

Digit == <<"0","1","2","3","4","5","6","7","8","9">>

\* str(n) for a non-negative integer
RECURSIVE DecDigits(_)
DecDigits(n) ==
  IF n < 10 THEN <<Digit[n + 1]>>
  ELSE DecDigits(n \div 10) \o <<Digit[(n % 10) + 1]>>

\* str(n) for an integer
DecStr(n) == IF n < 0 THEN <<"-">> \o DecDigits(0 - n) ELSE DecDigits(n)

\* sep.join(parts) for a sequence of strings
RECURSIVE Join(_, _)
Join(sep, parts) ==
  IF Len(parts) = 0 THEN <<>>
  ELSE IF Len(parts) = 1 THEN parts[1]
  ELSE parts[1] \o sep \o Join(sep, Tail(parts))

\* truncating remainder (the sign follows the dividend)
TruncMod(a, b) == IF a >= 0 THEN a - b * (a \div b) ELSE 0 - ((0 - a) - b * ((0 - a) \div b))

\* Python's a % b for b > 0: the sign follows the divisor
PyMod(a, b) == a - b * (a \div b)

\* --------------------------------------------------------- more JSON values
JBool(b) == [t |-> "bool", v |-> b]

\* `key in d` for a value that is a dict
HasKey(d, key) == d.t = "obj" /\ key \in DOMAIN d.v

IsListOf(j, types) == j.t = "list" /\ \A i \in 1..Len(j.v) : j.v[i].t \in types
IsListOfStr(j) == IsListOf(j, {"str"})

\* bool(v): the truth value Python gives a decoded JSON value
Truthy(j) ==
  CASE j.t = "str"  -> Len(j.v) > 0
    [] j.t = "list" -> Len(j.v) > 0
    [] j.t = "int"  -> j.v # 0
    [] j.t = "bool" -> j.v
    [] j.t = "obj"  -> DOMAIN j.v # {}
    [] OTHER        -> FALSE

\* the text an f-string puts in place of {v}
Fmt(j) ==
  CASE j.t = "str" -> j.v
    [] j.t = "int" -> DecStr(j.v)
    [] j.t = "null" -> <<"None">>
    [] OTHER -> <<"<repr>">>

\* ---------------------------------------------- results of an evaluation
NoExc == [type |-> "none", msg |-> <<>>]
Ok(val) == [ok |-> TRUE, val |-> val, exc |-> NoExc]
Raise(type, msg) == [ok |-> FALSE, val |-> JNull, exc |-> [type |-> type, msg |-> msg]]

\* ------------------------------------------------ rube_proxy_server.py
\* the keywords of the simulated tool discovery
kw_email    == <<"e","m","a","i","l">>
kw_slack    == <<"s","l","a","c","k">>
kw_message  == <<"m","e","s","s","a","g","e">>
kw_document == <<"d","o","c","u","m","e","n","t">>
kw_doc      == <<"d","o","c">>
kw_calendar == <<"c","a","l","e","n","d","a","r">>
kw_meeting  == <<"m","e","e","t","i","n","g">>
kw_social   == <<"s","o","c","i","a","l">>
kw_linkedin == <<"l","i","n","k","e","d","i","n">>
kw_twitter  == <<"t","w","i","t","t","e","r">>

EmailTools    == <<JStr(<<"GMAIL_SEND_EMAIL">>), JStr(<<"OUTLOOK_SEND_EMAIL">>), JStr(<<"GMAIL_FETCH_EMAILS">>)>>
SlackTools    == <<JStr(<<"SLACK_SEND_MESSAGE">>), JStr(<<"SLACK_LIST_CHANNELS">>)>>
DocTools      == <<JStr(<<"GOOGLE_DOCS_CREATE">>), JStr(<<"GOOGLE_DOCS_EDIT">>)>>
CalendarTools == <<JStr(<<"GOOGLE_CALENDAR_CREATE_EVENT">>), JStr(<<"OUTLOOK_CALENDAR_CREATE_EVENT">>)>>
SocialTools   == <<JStr(<<"LINKEDIN_POST">>), JStr(<<"TWITTER_POST">>)>>
DefaultTools  == <<JStr(<<"GMAIL_SEND_EMAIL">>), JStr(<<"SLACK_SEND_MESSAGE">>), JStr(<<"GOOGLE_DOCS_CREATE">>)>>

\* a chain of elif: only the first matching group is taken
simulated_tools_elif(use_case) ==
  LET found ==
        IF In(kw_email, use_case) THEN EmailTools
        ELSE IF In(kw_slack, use_case) \/ In(kw_message, use_case) THEN SlackTools
        ELSE IF In(kw_document, use_case) \/ In(kw_doc, use_case) THEN DocTools
        ELSE IF In(kw_calendar, use_case) \/ In(kw_meeting, use_case) THEN CalendarTools
        ELSE IF In(kw_social, use_case) \/ In(kw_linkedin, use_case)
                \/ In(kw_twitter, use_case) THEN SocialTools
        ELSE <<>>
  IN IF found = <<>> THEN DefaultTools ELSE found

\* lines 58-74: five independent ifs extend the list, then the default
simulated_tools(use_case) ==
  LET t1 == IF In(kw_email, use_case) THEN EmailTools ELSE <<>>
      t2 == IF In(kw_slack, use_case) \/ In(kw_message, use_case)
            THEN t1 \o SlackTools ELSE t1
      t3 == IF In(kw_document, use_case) \/ In(kw_doc, use_case)
            THEN t2 \o DocTools ELSE t2
      t4 == IF In(kw_calendar, use_case) \/ In(kw_meeting, use_case)
            THEN t3 \o CalendarTools ELSE t3
      t5 == IF In(kw_social, use_case) \/ In(kw_linkedin, use_case)
               \/ In(kw_twitter, use_case)
            THEN t4 \o SocialTools ELSE t4
  IN IF t5 = <<>> THEN DefaultTools ELSE t5

\* line 59: f"session-{hash(use_case) % 10000}"; h is hash(use_case)
session_id_of(h) == <<"s","e","s","s","i","o","n","-">> \o DecStr(PyMod(h, 10000))

SearchNote == JStr(<<"Simulated response - real MCP integration would provide actual tool discovery">>)

\* lines 52-84: the body of `except NameError` in search_tools
search_tools_fallback(request, h) ==
  LET raw == Get(request, "use_case", JStr(<<>>))
  IN IF raw.t # "str"
     THEN Raise("AttributeError", <<"object has no attribute 'lower'">>)
     ELSE LET use_case == lower(raw.v)
              tools == simulated_tools(use_case)
          IN Ok(JObj([tools      |-> JList(tools),
                      session_id |-> JStr(session_id_of(h)),
                      reasoning  |-> JStr(<<"Found ">> \o DecStr(Len(tools))
                                          \o <<" tools for: ">> \o use_case),
                      note       |-> SearchNote]))

\* ------------------------------------------------------------ responses
\* what the backend name is bound to when a handler runs:
\*   "undefined" - the name does not exist (NameError), as in the source
\*   "returns"   - a function that returns `result`
\*   "raises"    - a function that raises an exception other than NameError
Backend(mode, result) == [mode |-> mode, result |-> result]

\* return {"success": True, "data": data}
Resp200(data) ==
  [status |-> 200, uncaught |-> FALSE, errors |-> <<>>,
   body |-> JObj([success |-> JBool(TRUE), data |-> data])]

\* logger.error(f"Error in <where>: {e}"); raise HTTPException(500, detail=str(e))
Resp500(where, exc) ==
  [status |-> 500, uncaught |-> FALSE,
   errors |-> <<[where |-> where, msg |-> exc.msg]>>,
   body |-> JObj([detail |-> JStr(exc.msg)])]

\* an exception that leaves the handler: the framework answers a bare 500
RespUncaught(exc) ==
  [status |-> 500, uncaught |-> TRUE, errors |-> <<>>,
   body |-> JStr(<<"Internal Server Error">>)]

BackendError == [type |-> "Exception", msg |-> <<"backend failure">>]

\* no except clause for NameError: it is handled as any other exception
try_backend_no_nameerror(where, backend, fallback) ==
  IF backend.mode = "returns" THEN Resp200(backend.result)
  ELSE IF backend.mode = "undefined"
  THEN Resp500(where, [type |-> "NameError", msg |-> <<"name is not defined">>])
  ELSE Resp500(where, BackendError)

\* the try / try / except NameError / except Exception frame shared by the
\* four handlers; `fallback` is the evaluation of the except NameError body
try_backend(where, backend, fallback) ==
  IF backend.mode = "returns" THEN Resp200(backend.result)
  ELSE IF backend.mode = "undefined"
  THEN IF fallback.ok THEN Resp200(fallback.val) ELSE Resp500(where, fallback.exc)
  ELSE Resp500(where, BackendError)

\* lines 35-88
search_tools(request, backend, h) ==
  try_backend("search-tools", backend, search_tools_fallback(request, h))

\* len(x): defined for lists and strings, a TypeError for numbers and None
HasLen(j) == j.t \in {"list", "str"}

\* iterating a list gives its elements, iterating a string its characters
Iter(j) == IF j.t = "list" THEN j.v ELSE [i \in 1..Len(j.v) |-> JStr(<<j.v[i]>>)]

ExecNote == JStr(<<"This would perform real actions with proper MCP integration">>)

\* lines 122-130 with the results appended in front
RECURSIVE simulate_each_reversed(_)
simulate_each_reversed(tools) ==
  IF Len(tools) = 0 THEN Ok(<<>>)
  ELSE IF tools[1].t # "obj"
  THEN Raise("AttributeError", <<"object has no attribute 'get'">>)
  ELSE LET tool_slug == IF "tool_slug" \in DOMAIN tools[1].v
                        THEN tools[1].v["tool_slug"] ELSE JStr(<<"unknown">>)
           result == JObj([tool    |-> tool_slug,
                           status  |-> JStr(<<"simulated">>),
                           message |-> JStr(<<"Simulated execution of ">> \o Fmt(tool_slug)),
                           note    |-> ExecNote])
           rest == simulate_each_reversed(Tail(tools))
       IN IF rest.ok THEN Ok(rest.val \o <<result>>) ELSE rest

\* lines 120-130: one result per tool, in order; tool.get fails on a non-dict
RECURSIVE simulate_each(_)
simulate_each(tools) ==
  IF Len(tools) = 0 THEN Ok(<<>>)
  ELSE IF tools[1].t # "obj"
  THEN Raise("AttributeError", <<"object has no attribute 'get'">>)
  ELSE LET tool_slug == IF "tool_slug" \in DOMAIN tools[1].v
                        THEN tools[1].v["tool_slug"] ELSE JStr(<<"unknown">>)
           result == JObj([tool    |-> tool_slug,
                           status  |-> JStr(<<"simulated">>),
                           message |-> JStr(<<"Simulated execution of ">> \o Fmt(tool_slug)),
                           note    |-> ExecNote])
           rest == simulate_each(Tail(tools))
       IN IF rest.ok THEN Ok(<<result>> \o rest.val) ELSE rest

\* lines 117-141: the body of `except NameError` in execute_workflow
execute_workflow_fallback(request) ==
  LET tools == Get(request, "tools", JList(<<>>))
      results == simulate_each(Iter(tools))
  IN IF ~results.ok THEN results
     ELSE Ok(JObj([success    |-> JBool(TRUE),
                   results    |-> JList(results.val),
                   session_id |-> Get(request, "session_id", JStr(<<>>)),
                   message    |-> JStr(<<"Simulated execution of ">>
                                       \o DecStr(Len(tools.v)) \o <<" tools">>),
                   note       |-> JStr(<<"Real MCP integration would perform actual app automation">>)]))

\* lines 90-145; the logging call of line 93 is outside the try
execute_workflow(request, backend) ==
  IF ~HasLen(Get(request, "tools", JList(<<>>)))
  THEN RespUncaught([type |-> "TypeError", msg |-> <<"object has no len()">>])
  ELSE try_backend("execute-workflow", backend, execute_workflow_fallback(request))

\* lines 164-177: the body of `except NameError` in manage_connections
manage_connections_fallback(request) ==
  LET toolkits == Get(request, "toolkits", JList(<<>>))
  IN IF ~HasLen(toolkits)
     THEN Raise("TypeError", <<"can only join an iterable">>)
     ELSE IF \E i \in 1..Len(Iter(toolkits)) : Iter(toolkits)[i].t # "str"
     THEN Raise("TypeError", <<"sequence item: expected str instance">>)
     ELSE Ok(JObj([success  |-> JBool(TRUE),
                   message  |-> JStr(<<"Connection management initiated for: ">>
                                     \o Join(<<", ">>, [i \in 1..Len(Iter(toolkits)) |-> Iter(toolkits)[i].v])),
                   toolkits |-> toolkits,
                   status   |-> JStr(<<"ready_for_auth">>),
                   note     |-> JStr(<<"Simulated response - real MCP integration would handle OAuth flows">>)]))

\* lines 147-181
manage_connections(request, backend) ==
  try_backend("manage-connections", backend, manage_connections_fallback(request))

PlanSteps == JList(<<JStr(<<"1. Identify required tools and permissions">>),
                     JStr(<<"2. Authenticate with necessary apps">>),
                     JStr(<<"3. Execute workflow steps in sequence">>),
                     JStr(<<"4. Verify results and handle errors">>)>>)

\* lines 204-228: the body of `except NameError` in create_plan
create_plan_fallback(request) ==
  Ok(JObj([success    |-> JBool(TRUE),
           plan       |-> JObj([use_case       |-> Get(request, "use_case", JStr(<<>>)),
                                difficulty     |-> Get(request, "difficulty", JStr(<<"medium">>)),
                                steps          |-> PlanSteps,
                                estimated_time |-> JStr(<<"2-5 minutes">>),
                                tools_needed   |-> JList(<<JStr(<<"GMAIL_SEND_EMAIL">>),
                                                           JStr(<<"SLACK_SEND_MESSAGE">>)>>)]),
           session_id |-> Get(request, "session_id", JStr(<<"plan-session">>)),
           note       |-> JStr(<<"Simulated response - real MCP integration would provide detailed workflow planning">>)]))

\* lines 183-232
create_plan(request, backend) ==
  try_backend("create-plan", backend, create_plan_fallback(request))

\* ------------------------------------------------------ the proxy's inputs
\* pieces of request text; a use_case is up to MaxFrags pieces put together
Fragments ==
  { <<"e","m","a","i","l">>,
    <<"S","l","a","c","k">>,
    <<"m","e","s","s","a","g","e">>,
    <<"d","o","c">>,
    <<"u","m","e","n","t">>,
    <<"c","a","l","e","n","d","a","r">>,
    <<"M","E","E","T">>,
    <<"i","n","g">>,
    <<"s","o","c","i","a","l">>,
    <<"l","i","n","k","e","d","i","n">>,
    <<"T","w","i","t","t","e","r">>,
    <<" ","x"," ">> }

RECURSIVE Texts(_)
Texts(n) == IF n = 0 THEN { <<>> }
            ELSE Texts(n - 1) \cup { t \o f : t \in Texts(n - 1), f \in Fragments }

UseCases == Texts(MaxFrags)

\* hash(use_case) is salted per process: any of these values, of both signs
Hashes == { k * 3333 : k \in (0 - MaxHashK)..MaxHashK }

RECURSIVE SeqsUpTo(_, _)
SeqsUpTo(S, n) == IF n = 0 THEN { <<>> }
                  ELSE SeqsUpTo(S, n - 1) \cup { <<x>> \o q : x \in S, q \in SeqsUpTo(S, n - 1) }

EmptyDict == [k \in {} |-> JNull]

SearchRequests ==
  { EmptyDict, [known_fields |-> JStr(<<"email:sarah@company.com">>)] }
  \cup { [use_case |-> u] : u \in { JStr(t) : t \in UseCases } \cup { JInt(7), JNull } }

ToolElems ==
  { JObj([tool_slug |-> JStr(<<"GMAIL_SEND_EMAIL">>)]),
    JObj([tool_slug |-> JStr(<<"SLACK_SEND_MESSAGE">>), arguments |-> JObj([channel |-> JStr(<<"#dev">>)])]),
    JObj([arguments |-> JObj([to |-> JStr(<<"sarah@company.com">>)])]),
    JStr(<<"x">>),
    JInt(1) }

ToolsValues ==
  { JList(l) : l \in SeqsUpTo(ToolElems, MaxTools) }
  \cup { JInt(5), JNull, JStr(<<>>), JStr(<<"a", "b">>) }

SessionValues == { JStr(<<"session-42">>), JStr(<<>>) }

ExecRequests ==
  { EmptyDict } \cup { [session_id |-> sid] : sid \in SessionValues }
  \cup { [tools |-> tv] : tv \in ToolsValues }
  \cup { [tools |-> tv, session_id |-> sid] : tv \in ToolsValues, sid \in SessionValues }

ToolkitsValues ==
  { JList(l) : l \in SeqsUpTo({ JStr(<<"gmail">>), JStr(<<"slack">>), JInt(3) }, MaxTools) }
  \cup { JInt(5), JNull, JStr(<<"a", "b">>) }

ManageRequests == { EmptyDict } \cup { [toolkits |-> tk] : tk \in ToolkitsValues }

PlanRequests ==
  { EmptyDict, [difficulty |-> JStr(<<"hard">>)], [session_id |-> JStr(<<"session-42">>)] }
  \cup { [use_case |-> u] : u \in { JStr(kw_email), JInt(7) } }
  \cup { [use_case |-> JStr(kw_doc), difficulty |-> JInt(3), session_id |-> JNull] }

\* what a defined backend function may return
BackendResults ==
  { JObj([tools |-> JList(<<JStr(<<"GMAIL_SEND_EMAIL">>)>>), session_id |-> JStr(<<"real-1">>)]),
    JObj([tools |-> JList(<<>>), session_id |-> JStr(<<>>)]),
    JObj([message |-> JStr(<<"done">>), results |-> JList(<<JObj([status |-> JStr(<<"ok">>)])>>)]),
    JObj([message |-> JStr(<<"done">>), results |-> JList(<<>>)]),
    JNull }

Backends ==
  { Backend("undefined", JNull), Backend("raises", JNull) }
  \cup { Backend("returns", r) : r \in BackendResults }


\* ========================================================= the scripts
\* test_complete_integration.py, advanced_workflows.py and
\* demo_voice_automation.py are sequential programs of awaited HTTP calls.
\* A function is modelled by two operators: <fn>_request gives the request
\* issued at a position of the function, <fn> gives what the function does
\* with the reply to it: go on to another position, return, or raise.

\* the use_case texts the scripts send
\* "send an email to sarah@company.com about the meeting"
uc_test_search ==
  <<"s","e","n","d"," ","a","n"," ","e","m","a","i","l"," ","t","o",
    " ","s","a","r","a","h","@","c","o","m","p","a","n","y",".","c",
    "o","m"," ","a","b","o","u","t"," ","t","h","e"," ","m","e","e",
    "t","i","n","g">>

\* "create a Google Doc called Test Document"
uc_agent_search ==
  <<"c","r","e","a","t","e"," ","a"," ","G","o","o","g","l","e"," ",
    "D","o","c"," ","c","a","l","l","e","d"," ","T","e","s","t"," ",
    "D","o","c","u","m","e","n","t">>

\* "create social media posts for product launch campaign"
uc_social ==
  <<"c","r","e","a","t","e"," ","s","o","c","i","a","l"," ","m","e",
    "d","i","a"," ","p","o","s","t","s"," ","f","o","r"," ","p","r",
    "o","d","u","c","t"," ","l","a","u","n","c","h"," ","c","a","m",
    "p","a","i","g","n">>

\* "send an email to sarah@company.com about tomorrow's meeting"
uc_demo_email ==
  <<"s","e","n","d"," ","a","n"," ","e","m","a","i","l"," ","t","o",
    " ","s","a","r","a","h","@","c","o","m","p","a","n","y",".","c",
    "o","m"," ","a","b","o","u","t"," ","t","o","m","o","r","r","o",
    "w","'","s"," ","m","e","e","t","i","n","g">>

\* "create a Google Doc called Project Plan"
uc_demo_doc ==
  <<"c","r","e","a","t","e"," ","a"," ","G","o","o","g","l","e"," ",
    "D","o","c"," ","c","a","l","l","e","d"," ","P","r","o","j","e",
    "c","t"," ","P","l","a","n">>


Req(method, url, body) == [method |-> method, url |-> url, body |-> body]

\* the request failed: connection refused, timeout
ConnError == [status |-> 0, uncaught |-> FALSE, errors |-> <<>>, body |-> JNull]

\* an answer that is not from the proxy's handler (a gateway, another server)
Http(status) == [status |-> status, uncaught |-> FALSE, errors |-> <<>>,
                 body |-> JStr(<<"<html>">>)]

HealthBody == JObj([status |-> JStr(<<"healthy">>), message |-> JStr(<<"RUBE MCP Proxy is running">>)])

\* rube_proxy_server.py lines 234-237: GET /health
health_check == [status |-> 200, uncaught |-> FALSE, errors |-> <<>>, body |-> HealthBody]

\* every outcome a request can have
Replies(req) ==
  { ConnError, Http(503) } \cup
  CASE req.url = "/health" -> { health_check }
    [] req.url = "/search-tools" ->
         { search_tools(req.body, b, h) : b \in Backends, h \in Hashes }
    [] req.url = "/execute-workflow" ->
         { execute_workflow(req.body, b) : b \in Backends }
    [] req.url = "/manage-connections" ->
         { manage_connections(req.body, b) : b \in Backends }
    [] OTHER -> { Http(200) }

\* the reply was produced by the proxy without any backend: the health
\* answer or a simulated result (only those carry a "note")
FromProxyItself(req, reply) ==
  IF req.url = "/health" THEN reply = health_check
  ELSE IF req.url \in {"/search-tools", "/execute-workflow", "/manage-connections"}
  THEN reply.status = 200 /\ HasKey(reply.body, "data") /\ HasKey(reply.body.v.data, "note")
  ELSE TRUE

\* how the scripts look at a reply
StatusClass(reply) ==
  IF reply.status = 0 THEN "error" ELSE IF reply.status = 200 THEN "200" ELSE "non200"

\* result['data'][key] can be evaluated
HasData(reply, key) ==
  /\ HasKey(reply.body, "data")
  /\ HasKey(reply.body.v.data, key)

Data(reply, key) == reply.body.v.data.v[key]

\* what a function does next
Goto(a, i, sid) == [kind |-> "goto", at |-> a, idx |-> i, session_id |-> sid, value |-> JNull]
Return(val)     == [kind |-> "return", at |-> "returned", idx |-> 0, session_id |-> JNull, value |-> val]
Raised          == [kind |-> "raise", at |-> "raised", idx |-> 0, session_id |-> JNull, value |-> JNull]

False == JBool(FALSE)
True  == JBool(TRUE)

\* --------------------------------------- test_complete_integration.py
\* lines 13-53
test_proxy_server_request(a, i, sid) ==
  IF a = "health" THEN Req("GET", "/health", EmptyDict)
  ELSE Req("POST", "/search-tools",
           [use_case |-> JStr(uc_test_search),
            known_fields |-> JStr(<<"email:sarah@company.com">>)])

test_proxy_server(a, i, sid, reply) ==
  IF a = "health"
  THEN IF reply.status = 200 /\ reply.body.t = "obj" THEN Goto("search", 0, sid)
       ELSE Return(False)
  ELSE IF reply.status = 200 /\ HasData(reply, "tools") /\ HasData(reply, "session_id")
       THEN Return(Data(reply, "session_id"))
       ELSE Return(False)

\* lines 55-91
test_workflow_execution_request(a, i, sid) ==
  Req("POST", "/execute-workflow",
      [tools |-> JList(<<JObj([tool_slug |-> JStr(<<"GMAIL_SEND_EMAIL">>),
                               arguments |-> JObj([to |-> JStr(<<"sarah@company.com">>),
                                                   subject |-> JStr(<<"Meeting Tomorrow">>)])])>>),
       session_id |-> sid,
       thought |-> JStr(<<"Testing email workflow execution">>)])

test_workflow_execution(a, i, sid, reply) ==
  IF /\ reply.status = 200
     /\ HasData(reply, "message")
     /\ HasData(reply, "results")
     /\ Data(reply, "results").t = "list"
     /\ Len(Data(reply, "results").v) > 0
     /\ HasKey(Data(reply, "results").v[1], "status")
  THEN Return(True)
  ELSE Return(False)

\* lines 93-117
test_connection_management_request(a, i, sid) ==
  Req("POST", "/manage-connections",
      [toolkits |-> JList(<<JStr(<<"gmail">>), JStr(<<"slack">>), JStr(<<"google_docs">>)>>)])

test_connection_management(a, i, sid, reply) ==
  IF reply.status = 200 /\ reply.body.t = "obj" THEN Return(True) ELSE Return(False)

\* lines 119-150, with ProxyRubeMCPClient.initialize and .search_tools
\* (proxy_rube_integration.py lines 26-73) which it awaits
test_agent_proxy_connection_request(a, i, sid) ==
  IF a = "initialize" THEN Req("GET", "/health", EmptyDict)
  ELSE Req("POST", "/search-tools",
           [use_case |-> JStr(uc_agent_search),
            known_fields |-> JStr(<<>>),
            session |-> JObj([generate_id |-> JBool(TRUE)])])

\* the dict ProxyRubeMCPClient.search_tools returns for a reply
client_result(reply) ==
  IF reply.status = 200 /\ reply.body.t = "obj"
  THEN IF "data" \in DOMAIN reply.body.v THEN reply.body.v.data ELSE JObj(EmptyDict)
  ELSE JObj([success |-> False, error |-> JStr(<<"HTTP error">>)])

test_agent_proxy_connection(a, i, sid, reply) ==
  IF a = "initialize"
  THEN IF reply.status = 200 THEN Goto("search_tools", 0, sid) ELSE Return(False)
  ELSE IF Truthy(client_result(reply)) /\ client_result(reply).t = "obj"
       THEN Return(True)
       ELSE Return(False)

\* {"tools": [{"tool_slug": slug, "arguments": arguments}]}
one_tool(slug, arguments) ==
  JList(<<JObj([tool_slug |-> JStr(<<slug>>), arguments |-> arguments])>>)

\* ', '.join(x) can be evaluated
Joinable(j) == IsListOfStr(j) \/ j.t = "str"

\* ------------------------------------------------ advanced_workflows.py
platforms == <<"LINKEDIN_POST", "TWITTER_POST", "FACEBOOK_POST">>

\* lines 11-57
workflow_social_media_campaign_request(a, i, sid) ==
  IF a = "search"
  THEN Req("POST", "/search-tools", [use_case |-> JStr(uc_social)])
  ELSE Req("POST", "/execute-workflow",
           [tools |-> one_tool(platforms[i], JObj([content |-> JStr(<<"message", platforms[i]>>)])),
            session_id |-> sid])

workflow_social_media_campaign(a, i, sid, reply) ==
  IF reply.status = 0 THEN Raised
  ELSE IF a = "search"
  THEN IF reply.status = 200
       THEN IF /\ HasData(reply, "tools") /\ HasData(reply, "session_id")
               /\ Joinable(Data(reply, "tools"))
            THEN Goto("post", 1, Data(reply, "session_id"))
            ELSE Raised
       ELSE Return(False)
  ELSE IF i < Len(platforms) THEN Goto("post", i + 1, sid) ELSE Return(True)

attendees == <<"sarah@company.com", "john@company.com", "mike@company.com">>

\* lines 59-130
workflow_meeting_automation_request(a, i, sid) ==
  CASE a = "calendar" ->
         Req("POST", "/execute-workflow",
             [tools |-> one_tool("GOOGLE_CALENDAR_CREATE_EVENT",
                                 JObj([title |-> JStr(<<"Team Meeting">>)]))])
    [] a = "invite" ->
         Req("POST", "/execute-workflow",
             [tools |-> one_tool("GMAIL_SEND_EMAIL", JObj([to |-> JStr(<<attendees[i]>>)]))])
    [] OTHER ->
         Req("POST", "/execute-workflow",
             [tools |-> one_tool("GOOGLE_DOCS_CREATE",
                                 JObj([title |-> JStr(<<"Team Meeting Agenda - Sept 23">>)]))])

\* the invitations and the agenda are sent whatever the calendar call answered
workflow_meeting_automation_no_return(a, i, sid, reply) ==
  IF reply.status = 0 THEN Raised
  ELSE CASE a = "calendar" -> Goto("invite", 1, sid)
         [] a = "invite" ->
              IF i < Len(attendees) THEN Goto("invite", i + 1, sid) ELSE Goto("agenda", 0, sid)
         [] OTHER -> Return(True)

workflow_meeting_automation(a, i, sid, reply) ==
  IF reply.status = 0 THEN Raised
  ELSE CASE a = "calendar" ->
              IF reply.status = 200 THEN Goto("invite", 1, sid) ELSE Return(False)
         [] a = "invite" ->
              IF i < Len(attendees) THEN Goto("invite", i + 1, sid) ELSE Goto("agenda", 0, sid)
         [] OTHER -> Return(True)

docs == <<"Project Overview", "Technical Specifications", "Development Timeline">>

\* lines 132-221
workflow_project_kickoff_request(a, i, sid) ==
  CASE a = "repo" ->
         Req("POST", "/execute-workflow",
             [tools |-> one_tool("GITHUB_CREATE_REPO", JObj([name |-> JStr(<<"mobile-app-project">>)]))])
    [] a = "docs" ->
         Req("POST", "/execute-workflow",
             [tools |-> one_tool("GOOGLE_DOCS_CREATE", JObj([title |-> JStr(<<docs[i]>>)]))])
    [] a = "jira" ->
         Req("POST", "/execute-workflow",
             [tools |-> one_tool("JIRA_CREATE_PROJECT", JObj([key |-> JStr(<<"MAD">>)]))])
    [] OTHER ->
         Req("POST", "/execute-workflow",
             [tools |-> one_tool("SLACK_SEND_MESSAGE", JObj([channel |-> JStr(<<"#development">>)]))])

\* a failed repository creation ends the workflow
workflow_project_kickoff_stops(a, i, sid, reply) ==
  IF reply.status = 0 THEN Raised
  ELSE CASE a = "repo" -> IF reply.status = 200 THEN Goto("docs", 1, sid) ELSE Return(False)
         [] a = "docs" -> IF i < Len(docs) THEN Goto("docs", i + 1, sid) ELSE Goto("jira", 0, sid)
         [] a = "jira" -> Goto("slack", 0, sid)
         [] OTHER -> Return(True)

workflow_project_kickoff(a, i, sid, reply) ==
  IF reply.status = 0 THEN Raised
  ELSE CASE a = "repo" -> Goto("docs", 1, sid)
         [] a = "docs" -> IF i < Len(docs) THEN Goto("docs", i + 1, sid) ELSE Goto("jira", 0, sid)
         [] a = "jira" -> Goto("slack", 0, sid)
         [] OTHER -> Return(True)

\* lines 223-290
workflow_customer_support_request(a, i, sid) ==
  CASE a = "ticket" ->
         Req("POST", "/execute-workflow",
             [tools |-> one_tool("JIRA_CREATE_ISSUE", JObj([project |-> JStr(<<"SUPPORT">>)]))])
    [] a = "email" ->
         Req("POST", "/execute-workflow",
             [tools |-> one_tool("GMAIL_SEND_EMAIL", JObj([to |-> JStr(<<"customer@example.com">>)]))])
    [] OTHER ->
         Req("POST", "/execute-workflow",
             [tools |-> one_tool("SLACK_SEND_MESSAGE", JObj([channel |-> JStr(<<"#support">>)]))])

workflow_customer_support(a, i, sid, reply) ==
  IF reply.status = 0 THEN Raised
  ELSE CASE a = "ticket" -> Goto("email", 0, sid)
         [] a = "email" -> Goto("slack", 0, sid)
         [] OTHER -> Return(True)

\* --------------------------------------------- demo_voice_automation.py
\* lines 10-59
demo_email_automation_request(a, i, sid) ==
  IF a = "search"
  THEN Req("POST", "/search-tools",
           [use_case |-> JStr(uc_demo_email),
            known_fields |-> JStr(<<"email:sarah@company.com">>)])
  ELSE Req("POST", "/execute-workflow",
           [tools |-> one_tool("GMAIL_SEND_EMAIL", JObj([to |-> JStr(<<"sarah@company.com">>)])),
            session_id |-> sid])

demo_email_automation(a, i, sid, reply) ==
  IF reply.status = 0 THEN Raised
  ELSE IF reply.status # 200 THEN Return(False)
  ELSE IF a = "search"
  THEN IF /\ HasData(reply, "tools") /\ HasData(reply, "session_id")
          /\ Joinable(Data(reply, "tools"))
       THEN Goto("execute", 0, Data(reply, "session_id"))
       ELSE Raised
  ELSE IF HasData(reply, "message") THEN Return(True) ELSE Raised

\* lines 61-101
demo_document_creation_request(a, i, sid) ==
  IF a = "search"
  THEN Req("POST", "/search-tools", [use_case |-> JStr(uc_demo_doc)])
  ELSE Req("POST", "/execute-workflow",
           [tools |-> one_tool("GOOGLE_DOCS_CREATE", JObj([title |-> JStr(<<"Project Plan">>)]))])

demo_document_creation(a, i, sid, reply) ==
  IF reply.status = 0 THEN Raised
  ELSE IF reply.status # 200 THEN Return(False)
  ELSE IF a = "search"
  THEN IF HasData(reply, "tools") /\ Joinable(Data(reply, "tools"))
       THEN Goto("execute", 0, sid)
       ELSE Raised
  ELSE Return(True)

\* lines 103-127
demo_app_connections_request(a, i, sid) ==
  Req("POST", "/manage-connections",
      [toolkits |-> JList(<<JStr(<<"gmail">>), JStr(<<"slack">>)>>)])

demo_app_connections(a, i, sid, reply) ==
  IF reply.status = 0 THEN Raised
  ELSE IF reply.status # 200 THEN Return(False)
  ELSE IF HasData(reply, "message") THEN Return(True) ELSE Raised

\* lines 129-161: two GETs with `requests`, each in its own try/except
show_system_status_request(a, i, sid) ==
  IF a = "proxy" THEN Req("GET", "/health", EmptyDict)
  ELSE Req("GET", "http://localhost:3001", EmptyDict)

show_system_status(a, i, sid, reply) ==
  IF a = "proxy" THEN Goto("frontend", 0, sid) ELSE Return(JNull)

\* lines 247-268 of docker_deploy.py: the health-check loop of the generated
\* deploy-production.sh
max_attempts == 10

deploy_production_request(a, i, sid) == Req("GET", "http://localhost:8002/health", EmptyDict)

\* the loop stops one attempt late
deploy_production_off_by_one(a, i, sid, reply) ==
  IF reply.status = 200 THEN Return(True)
  ELSE IF i + 1 <= max_attempts + 1 THEN Goto("health", i + 1, sid)
  ELSE Return(False)

\* `curl -f` fails on a connection error and on an HTTP error status; i is $attempt
deploy_production(a, i, sid, reply) ==
  IF reply.status = 200 THEN Return(True)
  ELSE IF i + 1 <= max_attempts THEN Goto("health", i + 1, sid)
  ELSE Return(False)

\* ------------------------------------------------------ the entry points
Call(f, arg) == [kind |-> "call", fn |-> f, arg |-> arg, value |-> JNull]
Finish(val)  == [kind |-> "finish", fn |-> "none", arg |-> JNull, value |-> val]
Abort        == [kind |-> "abort", fn |-> "none", arg |-> JNull, value |-> JNull]

Started == [kind |-> "start", value |-> JNull]

Result(f, val) == [name |-> f, value |-> val]

\* a stage that failed does not end the run
run_complete_test_no_stop(rs, f, k) ==
  LET results == IF k.kind = "start" THEN rs ELSE Append(rs, Result(f, k.value))
  IN [results |-> results,
      next |->
        CASE Len(results) = 0 -> Call("test_proxy_server", JNull)
          [] Len(results) = 1 /\ ~Truthy(k.value) -> Finish(False)
          [] Len(results) = 1 /\ Truthy(k.value) -> Call("test_workflow_execution", results[1].value)
          [] Len(results) = 2 -> Call("test_connection_management", JNull)
          [] Len(results) = 3 -> Call("test_agent_proxy_connection", JNull)
          [] OTHER -> IF Truthy(k.value) THEN Finish(True) ELSE Finish(False)]

\* test_complete_integration.py lines 181-227; rs holds the values of the
\* stages already finished, k is what stage f just returned
run_complete_test(rs, f, k) ==
  LET results == IF k.kind = "start" THEN rs ELSE Append(rs, Result(f, k.value))
  IN [results |-> results,
      next |->
        IF k.kind # "start" /\ ~Truthy(k.value) THEN Finish(False)
        ELSE CASE Len(results) = 0 -> Call("test_proxy_server", JNull)
               [] Len(results) = 1 -> Call("test_workflow_execution", results[1].value)
               [] Len(results) = 2 -> Call("test_connection_management", JNull)
               [] Len(results) = 3 -> Call("test_agent_proxy_connection", JNull)
               [] OTHER -> Finish(True)]

workflows == <<"workflow_social_media_campaign", "workflow_meeting_automation",
               "workflow_project_kickoff", "workflow_customer_support">>

\* advanced_workflows.py lines 292-335: an exception counts as a failure
run_advanced_workflows(rs, f, k) ==
  LET results == IF k.kind = "start" THEN rs
                 ELSE Append(rs, Result(f, IF k.kind = "raise" THEN False ELSE k.value))
  IN [results |-> results,
      next |->
        IF Len(results) < Len(workflows) THEN Call(workflows[Len(results) + 1], JNull)
        ELSE Finish(JBool(\A n \in 1..Len(results) : Truthy(results[n].value)))]

\* demo_voice_automation.py lines 163-196: nothing is caught
run_complete_demo(rs, f, k) ==
  LET results == IF k.kind = "return" THEN Append(rs, Result(f, k.value)) ELSE rs
  IN [results |-> results,
      next |->
        IF k.kind = "raise" THEN Abort
        ELSE CASE Len(results) = 0 -> Call("show_system_status", JNull)
               [] Len(results) = 1 -> Call("demo_email_automation", JNull)
               [] Len(results) = 2 -> Call("demo_document_creation", JNull)
               [] Len(results) = 3 -> Call("demo_app_connections", JNull)
               [] OTHER -> Finish(JBool(\A n \in 2..4 : Truthy(results[n].value)))]

\* docker_deploy.py lines 219-276: deploy-production.sh; exit status 0 is True
deploy_production_sh(rs, f, k) ==
  LET results == IF k.kind = "start" THEN rs ELSE Append(rs, Result(f, k.value))
  IN [results |-> results,
      next |->
        IF k.kind = "start" THEN Call("deploy_production", JNull)
        ELSE Finish(k.value)]

Scripts == {"run_complete_test", "run_advanced_workflows", "run_complete_demo",
            "deploy-production.sh"}

Driver(s, rs, f, k) ==
  CASE s = "run_complete_test"      -> run_complete_test(rs, f, k)
    [] s = "run_advanced_workflows" -> run_advanced_workflows(rs, f, k)
    [] s = "run_complete_demo"      -> run_complete_demo(rs, f, k)
    [] OTHER                        -> deploy_production_sh(rs, f, k)

\* where function f starts when called with arg; key tells whether
\* RUBE_API_KEY is set in the environment
Enter(f, arg, key) ==
  CASE f = "test_proxy_server"              -> Goto("health", 0, JNull)
    [] f = "test_workflow_execution"        -> Goto("execute", 0, arg)
    [] f = "test_connection_management"     -> Goto("manage", 0, JNull)
    [] f = "test_agent_proxy_connection"    ->
         IF key THEN Goto("initialize", 0, JNull) ELSE Return(False)
    [] f = "workflow_social_media_campaign" -> Goto("search", 0, JNull)
    [] f = "workflow_meeting_automation"    -> Goto("calendar", 0, JNull)
    [] f = "workflow_project_kickoff"       -> Goto("repo", 0, JNull)
    [] f = "workflow_customer_support"      -> Goto("ticket", 0, JNull)
    [] f = "show_system_status"             -> Goto("proxy", 0, JNull)
    [] f = "demo_email_automation"          -> Goto("search", 0, JNull)
    [] f = "demo_document_creation"         -> Goto("search", 0, JNull)
    [] f = "demo_app_connections"           -> Goto("manage", 0, JNull)
    [] OTHER                                ->
         IF key THEN Goto("health", 1, JNull) ELSE Return(False)

RequestAt(f, a, i, sid) ==
  CASE f = "test_proxy_server"              -> test_proxy_server_request(a, i, sid)
    [] f = "test_workflow_execution"        -> test_workflow_execution_request(a, i, sid)
    [] f = "test_connection_management"     -> test_connection_management_request(a, i, sid)
    [] f = "test_agent_proxy_connection"    -> test_agent_proxy_connection_request(a, i, sid)
    [] f = "workflow_social_media_campaign" -> workflow_social_media_campaign_request(a, i, sid)
    [] f = "workflow_meeting_automation"    -> workflow_meeting_automation_request(a, i, sid)
    [] f = "workflow_project_kickoff"       -> workflow_project_kickoff_request(a, i, sid)
    [] f = "workflow_customer_support"      -> workflow_customer_support_request(a, i, sid)
    [] f = "show_system_status"             -> show_system_status_request(a, i, sid)
    [] f = "demo_email_automation"          -> demo_email_automation_request(a, i, sid)
    [] f = "demo_document_creation"         -> demo_document_creation_request(a, i, sid)
    [] f = "demo_app_connections"           -> demo_app_connections_request(a, i, sid)
    [] OTHER                                -> deploy_production_request(a, i, sid)

Step(f, a, i, sid, reply) ==
  CASE f = "test_proxy_server"              -> test_proxy_server(a, i, sid, reply)
    [] f = "test_workflow_execution"        -> test_workflow_execution(a, i, sid, reply)
    [] f = "test_connection_management"     -> test_connection_management(a, i, sid, reply)
    [] f = "test_agent_proxy_connection"    -> test_agent_proxy_connection(a, i, sid, reply)
    [] f = "workflow_social_media_campaign" -> workflow_social_media_campaign(a, i, sid, reply)
    [] f = "workflow_meeting_automation"    -> workflow_meeting_automation(a, i, sid, reply)
    [] f = "workflow_project_kickoff"       -> workflow_project_kickoff(a, i, sid, reply)
    [] f = "workflow_customer_support"      -> workflow_customer_support(a, i, sid, reply)
    [] f = "show_system_status"             -> show_system_status(a, i, sid, reply)
    [] f = "demo_email_automation"          -> demo_email_automation(a, i, sid, reply)
    [] f = "demo_document_creation"         -> demo_document_creation(a, i, sid, reply)
    [] f = "demo_app_connections"           -> demo_app_connections(a, i, sid, reply)
    [] OTHER                                -> deploy_production(a, i, sid, reply)

\* ------------------------------------- start_both.py and the agent worker
\* a directory is the sequence of its path components
ProjectRoot == <<"home", "project">>
AgentDir == ProjectRoot \o <<"agent-starter-python">>
FrontendDir == ProjectRoot \o <<"agent-starter-react">>

\* the directories that exist once setup_frontend.py has run
Dirs ==
  { SubSeq(ProjectRoot, 1, n) : n \in 0..Len(ProjectRoot) } \cup {AgentDir, FrontendDir}

\* a relative path applied to a directory
RECURSIVE resolve(_, _)
resolve(dir, path) ==
  IF path = <<>> THEN dir
  ELSE IF Head(path) = ".."
  THEN resolve(IF dir = <<>> THEN dir ELSE SubSeq(dir, 1, Len(dir) - 1), Tail(path))
  ELSE resolve(Append(dir, Head(path)), Tail(path))

\* os.chdir(path) in a process whose working directory is dir: the new
\* working directory, or FileNotFoundError and the directory unchanged
chdir(dir, path) ==
  LET target == resolve(dir, path) IN
  IF target \in Dirs THEN [cwd |-> target, raised |-> FALSE]
  ELSE [cwd |-> dir, raised |-> TRUE]

\* start_agent: os.chdir("agent-starter-python")
start_agent_dir == <<"agent-starter-python">>

\* start_frontend: os.chdir("../agent-starter-react")
start_frontend_dir == <<"..", "agent-starter-react">>

NotLaunched == <<"not launched">>

\* one access to a shared variable by a flow that is still running
Access(flow, kind) == [flow |-> flow, kind |-> kind]

\* the access is to a variable that another running flow has touched, and
\* one of the two writes it
Conflict(accesses, flow, kind) ==
  \E a \in accesses : a.flow # flow /\ "write" \in {a.kind, kind}

\* the accesses left when the flows in ended have ended
Forget(accesses, ended) == {a \in accesses : a.flow \notin ended}

\* the jobs one worker process is given
Jobs == 1..MaxJobs

\* proxy_rube_client = ProxyRubeMCPClient()
ProxyRubeMCPClient(key) == [api_key |-> key, initialized |-> FALSE]

\* ProxyRubeMCPClient.initialize up to its await: without an API key it
\* returns False and sends nothing
initialize_request(client) == IF client.api_key THEN "health" ELSE "start"

\* initialize that stores the outcome of every health check in the flag
initialize_resets(client, reply) == [client EXCEPT !.initialized = (reply.status = 200)]

\* ProxyRubeMCPClient.initialize after the await: the flag is set on a 200
\* answer and left as it is on any other answer or exception
initialize(client, reply) ==
  IF reply.status = 200 THEN [client EXCEPT !.initialized = TRUE] ELSE client

\* an operation of the client up to its await: it posts only when the flag is set
operation_request(client) == IF client.initialized THEN "posted" ELSE "idle"

\* what the operation returns for the reply it got
operation(class) ==
  CASE class = "200" -> "data"
    [] class = "non200" -> "http_error"
    [] OTHER -> "exception"

\* -------------------------------------------------------------- env files
\* the text of an env file is a sequence of tokens: a variable's name, "=",
\* the line break, "your_", " ", "#" and other text
Missing == <<"<no file>">>

\* the position of the first tok in text, 0 when there is none
FirstIndex(text, tok) ==
  IF \E i \in 1..Len(text) : text[i] = tok
  THEN CHOOSE i \in 1..Len(text) : text[i] = tok /\ \A j \in 1..(i - 1) : text[j] # tok
  ELSE 0

\* the characters str.splitlines() ends a line at; of "\n", "\r", "\v", "\f",
\* "\x1c", "\x1d", "\x1e", "\x85", "\u2028" and "\u2029" the texts here have
\* the first and the form feed
LineBoundaries == {"\n", "\f"}

\* the characters str.strip() removes, of those the texts here have
Whitespace == {" ", "\t", "\n", "\f"}

\* the position of the first line boundary in text, 0 when there is none
FirstBoundary(text) ==
  IF \E i \in 1..Len(text) : text[i] \in LineBoundaries
  THEN CHOOSE i \in 1..Len(text) :
         text[i] \in LineBoundaries /\ \A j \in 1..(i - 1) : text[j] \notin LineBoundaries
  ELSE 0

\* str.splitlines()
RECURSIVE splitlines(_)
splitlines(text) ==
  IF text = <<>> THEN <<>>
  ELSE LET i == FirstBoundary(text) IN
       IF i = 0 THEN <<text>>
       ELSE <<SubSeq(text, 1, i - 1)>> \o splitlines(SubSeq(text, i + 1, Len(text)))

\* str.strip()
RECURSIVE strip(_)
strip(s) ==
  IF s # <<>> /\ Head(s) \in Whitespace THEN strip(Tail(s))
  ELSE IF s # <<>> /\ s[Len(s)] \in Whitespace THEN strip(SubSeq(s, 1, Len(s) - 1))
  ELSE s

\* str.replace(old, new)
RECURSIVE replace(_, _, _)
replace(s, old, new) ==
  IF Len(s) < Len(old) THEN s
  ELSE IF StartsWith(s, old) THEN new \o replace(SubSeq(s, Len(old) + 1, Len(s)), old, new)
  ELSE <<Head(s)>> \o replace(Tail(s), old, new)

\* sync_env.py load_env_file: the loop over the lines, a later line for a
\* key replacing an earlier one
RECURSIVE load_lines(_, _)
load_lines(lines, env_vars) ==
  IF lines = <<>> THEN env_vars
  ELSE LET line == strip(Head(lines))
           i == FirstIndex(line, "=")
           key == SubSeq(line, 1, i - 1)
           value == SubSeq(line, i + 1, Len(line))
       IN load_lines(Tail(lines),
            IF line # <<>> /\ Head(line) # "#" /\ i # 0
            THEN [k \in DOMAIN env_vars \cup {key} |-> IF k = key THEN value ELSE env_vars[k]]
            ELSE env_vars)

\* sync_env.py load_env_file
load_env_file(file) ==
  IF file = Missing THEN EmptyDict ELSE load_lines(splitlines(file), EmptyDict)

\* sync_env.py main: required_vars
sync_required_vars == <<"LIVEKIT_URL", "LIVEKIT_API_KEY", "LIVEKIT_API_SECRET">>

\* sync_env.py main: frontend_template.format(**frontend_vars)
frontend_template(frontend_vars) ==
  <<"#", " LiveKit Configuration", "\n">> \o
  <<"#", " These values are synced from the agent configuration", "\n">> \o
  <<"LIVEKIT_API_KEY", "=">> \o frontend_vars[<<"LIVEKIT_API_KEY">>] \o <<"\n">> \o
  <<"LIVEKIT_API_SECRET", "=">> \o frontend_vars[<<"LIVEKIT_API_SECRET">>] \o <<"\n">> \o
  <<"LIVEKIT_URL", "=">> \o frontend_vars[<<"LIVEKIT_URL">>] \o <<"\n">> \o
  <<"\n">> \o
  <<"#", " Internal environment variables (leave as is)", "\n">> \o
  <<"NEXT_PUBLIC_APP_CONFIG_ENDPOINT", "=", "\n">> \o
  <<"SANDBOX_ID", "=">>

\* sync_env.py main without the test for placeholder values
sync_env_main_no_placeholder(agent_file, frontend_file, frontend_dir_exists) ==
  LET agent_vars == load_env_file(agent_file)
      missing_vars == SelectSeq(sync_required_vars,
                        LAMBDA var : <<var>> \notin DOMAIN agent_vars)
      unchanged == [exit |-> 1, wrote |-> FALSE, file |-> frontend_file]
  IN IF agent_file = Missing THEN unchanged
     ELSE IF missing_vars # <<>> THEN unchanged
     ELSE IF ~frontend_dir_exists THEN unchanged
     ELSE [exit |-> 0, wrote |-> TRUE, file |-> frontend_template(agent_vars)]

\* sync_env.py main: the exit status, the frontend env file it leaves and
\* whether it wrote it; an exception of write_text is not caught
sync_env_main(agent_file, frontend_file, frontend_dir_exists) ==
  LET agent_vars == load_env_file(agent_file)
      missing_vars == SelectSeq(sync_required_vars,
                        LAMBDA var : \/ <<var>> \notin DOMAIN agent_vars
                                     \/ StartsWith(agent_vars[<<var>>], <<"your_">>))
      unchanged == [exit |-> 1, wrote |-> FALSE, file |-> frontend_file]
  IN IF agent_file = Missing THEN unchanged
     ELSE IF missing_vars # <<>> THEN unchanged
     ELSE IF ~frontend_dir_exists THEN unchanged
     ELSE [exit |-> 0, wrote |-> TRUE, file |-> frontend_template(agent_vars)]

\* setup_check.py check_env_file: required_vars
required_vars == <<"LIVEKIT_URL", "LIVEKIT_API_KEY", "LIVEKIT_API_SECRET",
                   "OPENAI_API_KEY", "DEEPGRAM_API_KEY", "CARTESIA_API_KEY">>

\* setup_check.py check_env_file on the content of .env.local
check_env_file(file) ==
  LET content == file
      missing_vars == SelectSeq(required_vars, LAMBDA var : ~In(<<var>>, content))
      placeholder_vars ==
        SelectSeq(required_vars,
          LAMBDA var :
            /\ In(<<var>>, content)
            /\ \/ In(<<var, "=", "your_">>, content)
               \/ In(<<var, "=">>, replace(content, <<var, "=", "\n">>, <<var, "=">>)))
  IN IF file = Missing
     THEN [ran |-> TRUE, ok |-> FALSE, msg |-> ".env.local file not found", vars |-> <<>>]
     ELSE IF missing_vars # <<>>
     THEN [ran |-> TRUE, ok |-> FALSE, msg |-> "Missing variables: ", vars |-> missing_vars]
     ELSE IF placeholder_vars # <<>>
     THEN [ran |-> TRUE, ok |-> FALSE, msg |-> "Placeholder values detected for: ",
           vars |-> placeholder_vars]
     ELSE [ran |-> TRUE, ok |-> TRUE, msg |-> "All environment variables configured",
           vars |-> <<>>]

\* the ways a line of the agent's .env.local can give a variable
Forms == {"plain", "placeholder", "empty", "spaced", "commented", "absent"}

EnvLine(var, form) ==
  CASE form = "plain"       -> <<var, "=", "value", "\n">>
    [] form = "placeholder" -> <<var, "=", "your_", "value", "\n">>
    [] form = "empty"       -> <<var, "=", "\n">>
    [] form = "spaced"      -> <<var, " ", "=", " ", "value", "\n">>
    [] form = "commented"   -> <<"#", var, "=", "value", "\n">>
    [] OTHER                -> <<>>

\* an env file in the layout configure_env.py writes, variable i given in form layout[i]
EnvFile(layout) ==
  <<"#", " LiveKit Configuration", "\n">> \o
  EnvLine(required_vars[1], layout[1]) \o EnvLine(required_vars[2], layout[2]) \o
  EnvLine(required_vars[3], layout[3]) \o <<"\n">> \o
  EnvLine(required_vars[4], layout[4]) \o EnvLine(required_vars[5], layout[5]) \o
  EnvLine(required_vars[6], layout[6])

\* the layouts in which at most MaxOdd variables differ from the others
Layouts ==
  { layout \in [1..Len(required_vars) -> Forms] :
      \E base \in {"plain", "spaced"} :
        Cardinality({i \in 1..Len(required_vars) : layout[i] # base}) <= MaxOdd }

EnvFiles == {Missing} \cup {EnvFile(layout) : layout \in Layouts}

\* a frontend env file left by an earlier run
OldFrontendFile == <<"#", " LiveKit Configuration", "\n">>

\* ------------------------------- ProxyRubeMCPClient and the agent's tools
\* {"success": False, "error": msg}
ErrorResult(msg) == JObj([success |-> False, error |-> JStr(msg)])

\* initialize that takes any HTTP answer for a healthy proxy
proxy_initialize_any_answer(client, reply) ==
  IF initialize_request(client) = "start"
  THEN [ret |-> FALSE, client |-> client, sent |-> <<>>]
  ELSE [ret |-> (reply.status # 0),
        client |-> [client EXCEPT !.initialized = @ \/ reply.status # 0],
        sent |-> <<Req("GET", "/health", EmptyDict)>>]

\* ProxyRubeMCPClient.initialize as one call: what it returns, the client
\* it leaves and the requests it sent
proxy_initialize(client, reply) ==
  IF initialize_request(client) = "start"
  THEN [ret |-> FALSE, client |-> client, sent |-> <<>>]
  ELSE [ret |-> (reply.status = 200), client |-> initialize(client, reply),
        sent |-> <<Req("GET", "/health", EmptyDict)>>]

\* the try block of an operation once the request is sent: the value it
\* returns or the exception it raises (no connection; response.json() or
\* result.get on a body that is not a JSON object)
operation_body(reply) ==
  IF reply.status = 0 THEN Raise("ConnectError", <<"All connection attempts failed">>)
  ELSE IF reply.status = 200
  THEN IF reply.body.t = "obj"
       THEN Ok(Get(reply.body.v, "data", JObj(EmptyDict)))
       ELSE Raise("ValueError", <<"body is not a JSON object">>)
  ELSE Ok(ErrorResult(<<"HTTP ">> \o DecStr(reply.status)))

\* an operation without its except clause
proxy_operation_no_except(client, req, reply) ==
  IF operation_request(client) = "idle"
  THEN [result |-> ErrorResult(<<"Proxy client not initialized">>), sent |-> <<>>,
        raised |-> FALSE]
  ELSE [result |-> operation_body(reply).val, sent |-> <<req>>,
        raised |-> ~operation_body(reply).ok]

\* an operation of ProxyRubeMCPClient (search_tools, execute_workflow,
\* manage_connections, create_plan) as one call: what it returns and the
\* requests it sent; the except clause turns an exception into a result
proxy_operation(client, req, reply) ==
  IF operation_request(client) = "idle"
  THEN [result |-> ErrorResult(<<"Proxy client not initialized">>), sent |-> <<>>,
        raised |-> FALSE]
  ELSE [result |-> IF operation_body(reply).ok THEN operation_body(reply).val
                   ELSE ErrorResult(operation_body(reply).exc.msg),
        sent |-> <<req>>, raised |-> FALSE]

\* the request of ProxyRubeMCPClient.search_tools
search_tools_request(use_case, known_fields) ==
  Req("POST", "/search-tools",
      [use_case |-> JStr(use_case), known_fields |-> JStr(known_fields),
       session |-> JObj([generate_id |-> JBool(TRUE)])])

\* the request of ProxyRubeMCPClient.execute_workflow
execute_workflow_request(tools, sid) ==
  Req("POST", "/execute-workflow",
      [tools |-> tools, memory |-> JObj(EmptyDict),
       session_id |-> IF Truthy(sid) THEN sid ELSE JStr(<<"workflow-session">>),
       sync_response_to_workbench |-> False,
       thought |-> JStr(<<"Executing workflow with ">> \o DecStr(Len(tools.v)) \o <<" tools">>),
       current_step |-> JStr(<<"EXECUTING_WORKFLOW">>),
       current_step_metric |-> JObj([completed |-> JInt(0), total |-> JInt(Len(tools.v)),
                                     unit |-> JStr(<<"tools">>)]),
       next_step |-> JStr(<<"WORKFLOW_COMPLETE">>)])

\* the request of ProxyRubeMCPClient.manage_connections
manage_connections_request(toolkits) ==
  Req("POST", "/manage-connections",
      [toolkits |-> toolkits, specify_custom_auth |-> JObj(EmptyDict)])

\* the request of ProxyRubeMCPClient.create_plan
create_plan_request(use_case, difficulty) ==
  Req("POST", "/create-plan",
      [use_case |-> JStr(use_case), difficulty |-> JStr(difficulty),
       known_fields |-> JStr(<<>>), primary_tool_slugs |-> JList(<<>>),
       reasoning |-> JStr(<<"Creating plan for: ">> \o use_case),
       session_id |-> JStr(<<"plan-session">>)])

\* every outcome a request of the client can have: those of the scripts'
\* requests, a create-plan answer of the proxy, and a 200 answer whose body
\* is a JSON object without "data", JSON that is no object, or no JSON
ClientReplies(req) ==
  Replies(req) \cup
  (IF req.url = "/create-plan" THEN {create_plan(req.body, b) : b \in Backends} ELSE {}) \cup
  { [status |-> 200, uncaught |-> FALSE, errors |-> <<>>, body |-> b] :
      b \in {JObj(EmptyDict), JList(<<>>), JStr(<<"<html>">>)} }

\* the message each tool has for the case that the proxy cannot be used
Fallback(tool) ==
  CASE tool = "manage_calendar"      -> "I can help with ..., but I need the RUBE proxy server running"
    [] tool = "triage_email"         -> "I can help you with ..., but I need the RUBE proxy server"
    [] tool = "search_app_tools"     -> "Hold on - I can't access the automation tools right now"
    [] tool = "execute_app_workflow" -> "Hit a snag executing this workflow"
    [] OTHER                         -> "Can't set up those connections right now"

\* Assistant.manage_calendar: the result of the search is not looked at
manage_calendar(client, action, details, reply) ==
  LET r == proxy_operation(client,
             search_tools_request(<<"c","a","l","e","n","d","a","r"," ">> \o action, details),
             reply)
  IN [op |-> r, message |-> IF r.raised THEN Fallback("manage_calendar")
                            ELSE "Got it, working on"]

\* Assistant.triage_email: the result of the search is not looked at
triage_email(client, email_context, action_needed, reply) ==
  LET r == proxy_operation(client,
             search_tools_request(<<"e","m","a","i","l"," ">> \o action_needed, email_context),
             reply)
  IN [op |-> r, message |-> IF r.raised THEN Fallback("triage_email")
                            ELSE "Alright, looking at this email situation"]

\* `"tools" in result` for a truthy result: a key of a dict, an element of
\* a list; TypeError for a number
HasTools(result) ==
  CASE result.t = "obj"  -> Ok(JBool("tools" \in DOMAIN result.v))
    [] result.t = "list" -> Ok(JBool(\E i \in 1..Len(result.v) : result.v[i] = JStr(<<"tools">>)))
    [] result.t = "str"  -> Ok(JBool(In(<<"t","o","o","l","s">>, result.v)))
    [] OTHER             -> Raise("TypeError", <<"argument is not iterable">>)

\* Assistant.search_app_tools
search_app_tools(client, task_description, known_info, reply) ==
  LET r == proxy_operation(client, search_tools_request(task_description, known_info), reply)
      result == r.result
      tools_found == Get(result.v, "tools", JList(<<>>))
  IN [op |-> r,
      message |->
        IF r.raised THEN Fallback("search_app_tools")
        ELSE IF ~Truthy(result) THEN "I searched our integrations"
        ELSE IF ~HasTools(result).ok THEN Fallback("search_app_tools")
        ELSE IF ~HasTools(result).val.v THEN "I searched our integrations"
        ELSE IF result.t = "obj" /\ Joinable(tools_found) THEN "Okay, I found"
        ELSE Fallback("search_app_tools")]

\* Assistant.execute_app_workflow
execute_app_workflow(client, tools_to_use, sid, reply) ==
  LET tools == JList([i \in 1..Len(tools_to_use) |->
                        JObj([tool_slug |-> JStr(<<tools_to_use[i]>>),
                              arguments |-> JObj(EmptyDict)])])
      r == proxy_operation(client, execute_workflow_request(tools, sid), reply)
  IN [op |-> r,
      message |-> IF r.raised THEN Fallback("execute_app_workflow")
                  ELSE IF Truthy(r.result) THEN "Done. I executed"
                  ELSE "I initiated"]

\* Assistant.connect_to_apps
connect_to_apps(client, app_names, reply) ==
  LET toolkits == JList([i \in 1..Len(app_names) |-> JStr(<<app_names[i]>>)])
      r == proxy_operation(client, manage_connections_request(toolkits), reply)
  IN [op |-> r,
      message |-> IF r.raised THEN Fallback("connect_to_apps")
                  ELSE IF Truthy(r.result) THEN "Alright, I'm setting up connections"
                  ELSE "Started the connection process"]

\* what the language model passes to the tools
ToolTexts == { <<"x">>, <<"e","m","a","i","l">>, <<"M","E","E","T","i","n","g">> }
ToolNames == SeqsUpTo({"GMAIL_SEND_EMAIL", "SLACK_SEND_MESSAGE"}, MaxTools)
AppNames == SeqsUpTo({"gmail", "slack"}, MaxTools)
SessionIds == { JStr(<<>>), JStr(<<"session-1234">>) }

NoCall == [fn |-> "none"]

\* what is kept of a call of a tool or of the client
Called(fn, before, reply, r, message) ==
  [fn |-> fn, before |-> before, reply |-> reply, sent |-> r.sent,
   result |-> r.result, raised |-> r.raised, message |-> message]

\* ---------------------------------------------- real_rube_integration.py
\* real_rube_client = RealRubeMCPClient()
RealRubeMCPClient(key) == [api_key |-> key, initialized |-> FALSE]

\* RealRubeMCPClient.initialize: no request is made
real_initialize(client) ==
  IF ~client.api_key THEN [ret |-> FALSE, client |-> client, sent |-> 0]
  ELSE [ret |-> TRUE, client |-> [client EXCEPT !.initialized = TRUE], sent |-> 0]

RealOperations == {"search_tools", "execute_tools", "manage_connections"}

\* an operation of RealRubeMCPClient without its initialized check
real_operation_unchecked(client, name, odd) ==
  IF odd /\ name # "search_tools"
  THEN [success |-> FALSE, error |-> "exception", sent |-> 0]
  ELSE [success |-> TRUE, error |-> "", sent |-> 0]

\* an operation of RealRubeMCPClient: what it returns and the number of
\* HTTP requests it sent; odd arguments (a tool that is no dict, a toolkit
\* that is no string) raise inside the try and come back as an error
real_operation(client, name, odd) ==
  IF ~client.initialized
  THEN [success |-> FALSE, error |-> "RUBE client not initialized", sent |-> 0]
  ELSE IF odd /\ name # "search_tools"
  THEN [success |-> FALSE, error |-> "exception", sent |-> 0]
  ELSE [success |-> TRUE, error |-> "", sent |-> 0]

\* ------------------------------------- rube_integration.py, test_rube.py
\* RubeMCPClient(): api_key is read from the environment, no tool is known
RubeMCPClient(key) == [api_key |-> key, available_tools |-> {}]

\* RubeMCPClient._discover_tools: the keys of available_tools
discover_tools ==
  {"RUBE_SEARCH_TOOLS", "RUBE_MULTI_EXECUTE_TOOL", "RUBE_MANAGE_CONNECTIONS",
   "RUBE_CREATE_PLAN"}

\* RubeMCPClient.initialize that discovers the tools before it looks at the key
rube_initialize_discovers_first(client) ==
  [ret |-> client.api_key, client |-> [client EXCEPT !.available_tools = discover_tools]]

\* RubeMCPClient.initialize: what it returns and the client it leaves
rube_initialize(client) ==
  IF ~client.api_key THEN [ret |-> FALSE, client |-> client]
  ELSE [ret |-> TRUE, client |-> [client EXCEPT !.available_tools = discover_tools]]

\* RubeMCPClient.search_tools
rube_search_tools(use_case, known_fields) ==
  JObj([success |-> True,
        message |-> JStr(<<"Found tools for: ">> \o use_case),
        tools |-> JList(<<JStr(<<"GMAIL_SEND_EMAIL">>), JStr(<<"SLACK_SEND_MESSAGE">>),
                          JStr(<<"GITHUB_CREATE_ISSUE">>)>>),
        session_id |-> JStr(<<"demo-session-123">>)])

\* RubeMCPClient.execute_workflow on a list of tool objects
rube_execute_workflow(tools, sid) ==
  JObj([success |-> True,
        results |-> JList([i \in 1..Len(tools.v) |->
                      JObj([tool |-> Get(tools.v[i].v, "tool_slug", JStr(<<"unknown">>)),
                            status |-> JStr(<<"success">>),
                            message |-> JStr(<<"Executed ">> \o
                                             Fmt(Get(tools.v[i].v, "tool_slug", JStr(<<"tool">>)))
                                             \o <<" successfully">>)])]),
        session_id |-> sid])

\* RubeMCPClient.manage_connections
rube_manage_connections(apps) ==
  JObj([success |-> True,
        message |-> JStr(<<"Connection management initiated for: ">> \o
                         Join(<<", ">>, [i \in 1..Len(apps.v) |-> apps.v[i].v])),
        apps |-> apps,
        status |-> JStr(<<"ready_for_auth">>)])

\* the tool objects a workflow can be given
RubeTools ==
  { JObj([tool_slug |-> JStr(<<"GMAIL_SEND_EMAIL">>),
          arguments |-> JObj([to |-> JStr(<<"test@example.com">>)])]),
    JObj([tool_slug |-> JStr(<<"SLACK_SEND_MESSAGE">>), arguments |-> JObj(EmptyDict)]),
    JObj([arguments |-> JObj(EmptyDict)]) }

\* ------------------------------------------------------ setup_frontend.py
\* setup_frontend.py check_prerequisites, run in the project root: node and
\* pnpm answer their --version, agent-starter-python/.env.local exists and
\* its text does not contain "your_"
check_prerequisites(node_ok, pnpm_ok, agent_file) ==
  IF ~node_ok THEN FALSE
  ELSE IF ~pnpm_ok THEN FALSE
  ELSE IF agent_file = Missing THEN FALSE
  ELSE IF In(<<"your_">>, agent_file) THEN FALSE
  ELSE TRUE

\* the paths sync_env.py main names, relative to its working directory
sync_agent_env == <<"agent-starter-python", ".env.local">>
sync_frontend_env == <<"agent-starter-react", ".env.local">>

\* the env file at a path of the project: the project holds the agent's
\* .env.local and the frontend's, and no other
file_at(path, agent_file, frontend_file) ==
  IF path = AgentDir \o <<".env.local">> THEN agent_file
  ELSE IF path = FrontendDir \o <<".env.local">> THEN frontend_file
  ELSE Missing

\* the directory of a path
dirname(path) == SubSeq(path, 1, Len(path) - 1)

\* python sync_env.py started in directory dir: the paths it reads and
\* writes, its exit status and the file it leaves at the path it writes
sync_env_in(dir, agent_file, frontend_file, frontend_dir_exists) ==
  LET source == resolve(dir, sync_agent_env)
      target == resolve(dir, sync_frontend_env)
      r == sync_env_main(file_at(source, agent_file, frontend_file),
                         file_at(target, agent_file, frontend_file),
                         /\ dirname(target) \in Dirs
                         /\ dirname(target) = FrontendDir => frontend_dir_exists)
  IN [source |-> source, target |-> target, exit |-> r.exit, wrote |-> r.wrote,
      file |-> r.file]

\* setup_frontend.py setup_frontend, line 64: frontend_dir
setup_frontend_dir == <<"agent-starter-react">>

\* setup_frontend.py setup_frontend, run in the project root: the frontend
\* directory exists, pnpm install succeeds, and sync_env.py, started with
\* cwd=frontend_dir, exits with status 0
setup_frontend(install_ok, agent_file, frontend_file, frontend_dir_exists) ==
  LET sync_cwd == resolve(ProjectRoot, setup_frontend_dir)
      s == sync_env_in(sync_cwd, agent_file, frontend_file, frontend_dir_exists)
      no_sync == [ret |-> FALSE, installed |-> FALSE, sync_ran |-> FALSE,
                  sync_cwd |-> NotLaunched, sync_source |-> NotLaunched, sync_exit |-> 0,
                  frontend_file |-> frontend_file]
  IN IF ~frontend_dir_exists THEN no_sync
     ELSE IF ~install_ok THEN no_sync
     ELSE [ret |-> (s.exit = 0), installed |-> TRUE, sync_ran |-> TRUE,
           sync_cwd |-> sync_cwd, sync_source |-> s.source, sync_exit |-> s.exit,
           frontend_file |-> IF s.wrote /\ s.target = FrontendDir \o <<".env.local">>
                             THEN s.file ELSE frontend_file]

\* ---------------------------------------------------------------- deploy.py
\* deploy.py check_env_file on the content of .env.local
deploy_check_env_file(file) ==
  IF file = Missing THEN [ok |-> FALSE, msg |-> ".env.local file not found"]
  ELSE IF In(<<"your_">>, file)
  THEN [ok |-> FALSE, msg |-> "Placeholder values found in .env.local"]
  ELSE [ok |-> TRUE, msg |-> "Environment file configured"]

\* setup_check.py main: the exit status; check_models always passes
setup_check_main(file, deps_ok) ==
  IF check_env_file(file).ok /\ deps_ok THEN 0 ELSE 1

\* deploy_local that starts the agent whatever setup_check.py returned
deploy_local_setup_ignored(uv_ok, returncode) ==
  IF ~uv_ok THEN [ran |-> FALSE, returncode |-> 1, exit |-> 1, next |-> "exited"]
  ELSE [ran |-> TRUE, returncode |-> returncode, exit |-> 0, next |-> "verified"]

\* deploy_local, lines 93-100: subprocess.run of setup_check.py; without uv
\* the FileNotFoundError of subprocess.run is not caught and python exits
\* with status 1
deploy_local_setup(uv_ok, returncode) ==
  IF ~uv_ok THEN [ran |-> FALSE, returncode |-> 1, exit |-> 1, next |-> "exited"]
  ELSE IF returncode # 0
  THEN [ran |-> TRUE, returncode |-> returncode, exit |-> 1, next |-> "exited"]
  ELSE [ran |-> TRUE, returncode |-> returncode, exit |-> 0, next |-> "verified"]

\* deploy.py run_command: the command's output, or sys.exit(1), which raises
\* SystemExit, when the command fails
run_command(succeeds) ==
  IF succeeds THEN [raised |-> "none", exit |-> 0]
  ELSE [raised |-> "SystemExit", exit |-> 1]

\* check_docker whose except clause is `except Exception`, which does not
\* catch SystemExit
check_docker_except_exception(succeeds) ==
  IF run_command(succeeds).raised = "none" THEN [ret |-> TRUE, raised |-> "none"]
  ELSE [ret |-> FALSE, raised |-> run_command(succeeds).raised]

\* deploy.py check_docker: the bare except catches the SystemExit of
\* run_command
check_docker(succeeds) ==
  IF run_command(succeeds).raised = "none" THEN [ret |-> TRUE, raised |-> "none"]
  ELSE [ret |-> FALSE, raised |-> "none"]

\* main, build and docker modes, lines 135-137 and 141-143
docker_found(succeeds) ==
  LET c == check_docker(succeeds) IN
  IF c.raised # "none" THEN [next |-> "exited", exit |-> 1, reported |-> FALSE]
  ELSE IF ~c.ret THEN [next |-> "exited", exit |-> 1, reported |-> TRUE]
  ELSE [next |-> "found", exit |-> 0, reported |-> FALSE]

\* main, docker mode, lines 146-150: the bare except catches the SystemExit
\* of run_command and the image is built
image_inspect(succeeds) ==
  IF run_command(succeeds).raised = "none" THEN "run" ELSE "build"

\* the modes of deploy.py
Modes == {"docker", "local", "build"}

\* ------------------------------------------------- sync_env.py save_env_file
\* env_vars.items() is a sequence of <<key, value>> pairs; save_env_file
\* without a template joins the lines key=value with "\n"
save_env_file(env_vars) ==
  Join(<<"\n">>, [i \in 1..Len(env_vars) |-> env_vars[i][1] \o <<"=">> \o env_vars[i][2]])

\* the dict made of a sequence of items, a later item for a key replacing an
\* earlier one
DictOf(items) ==
  [k \in {items[i][1] : i \in 1..Len(items)} |->
     LET last == CHOOSE i \in 1..Len(items) :
                   items[i][1] = k /\ \A j \in (i + 1)..Len(items) : items[j][1] # k
     IN items[last][2]]

\* the number of characters in the values of items
RECURSIVE ValuesLen(_)
ValuesLen(items) == IF items = <<>> THEN 0 ELSE Len(Head(items)[2]) + ValuesLen(Tail(items))

\* the mappings written: at most MaxVars keys, MaxValueLen characters of
\* values, the characters of keys and values including the ones an env
\* file gives a meaning to
MaxVars == 2
MaxValueLen == 3
Keys == {<<>>, <<"A">>, <<"B">>, <<"#", "A">>}
ValueChars == {"a", "=", " ", "\n", "\f"}

RECURSIVE Mappings(_)
Mappings(n) ==
  IF n = 0 THEN {<<>>}
  ELSE Mappings(n - 1) \cup
       UNION {{Append(m, <<k, v>>) :
                 k \in Keys \ {m[i][1] : i \in 1..Len(m)},
                 v \in SeqsUpTo(ValueChars, MaxValueLen - ValuesLen(m))} :
              m \in {x \in Mappings(n - 1) : Len(x) = n - 1}}

\* values of a line added to the file by hand
EditValues == {<<"a">>, <<"a", "=", "a">>, <<>>}

\* ------------------------------------------------------------------ state
VARIABLES
  endpoint,   \* the POST endpoint whose handler ran last, "idle" between requests
  request,    \* the decoded JSON body given to the handler
  backend,    \* what the backend function name was bound to during the call
  hashval,    \* the value hash() gave for the use_case (0 when not called)
  response    \* what the client receives

VARIABLES
  script,     \* the script being run, "none" before it starts
  api_key,    \* whether the environment sets RUBE_API_KEY
  fn,         \* the function of the script that is executing
  at,         \* the position in fn: the await it is at, "returned" or "raised"
  idx,        \* the loop index at that position
  session_id, \* fn's local variable or parameter session_id
  waiting,    \* a request has been sent and its reply is awaited
  retval,     \* what fn returned or that it raised
  sent,       \* the requests fn has issued so far, in order
  replies,    \* the status class of each reply fn has received, in order
  results,    \* the values of the functions the script has finished, in order
  started,    \* the functions the script has called, in order
  outcome,    \* how the script ended
  simulated_only \* every reply so far came from the proxy's own code

VARIABLES
  cwd,           \* the working directory of the start_both.py process
  main_thread,   \* where the main thread of start_both.py is
  agent_thread,  \* where its agent thread is
  deploy_cwd,    \* the directory `python deploy.py local` was launched in
  pnpm_cwd,      \* the directory `pnpm dev` was launched in
  cwd_accesses,  \* the accesses the running threads made to the working directory
  worker,        \* what became of deploy.py and the agent worker it starts
  proxy_rube_client, \* the worker's module-level client
  job,           \* where each job's entrypoint is
  op,            \* whether a tool call of the job awaits the proxy's reply
  op_result,     \* what the job's last tool call got from the client
  flag_accesses, \* the accesses the running jobs made to proxy_rube_client.initialized
  races,         \* the shared variables two running flows have touched, one writing
  rube_initialized,  \* entrypoint's local of each job: what initialize returned
  observed_200,      \* some initialize() of the client has seen a 200 answer
  failed_initialize  \* some initialize() has failed after the flag was set

VARIABLES
  agent_env,     \* the text of agent-starter-python/.env.local, or Missing
  frontend_env,  \* the text of agent-starter-react/.env.local, or Missing
  frontend_dir,  \* whether the directory agent-starter-react exists
  sync,          \* how sync_env.py ended, and the frontend file it found
  env_check      \* what setup_check.check_env_file returned

VARIABLES
  proxy_client,  \* the ProxyRubeMCPClient the tools get from get_proxy_rube_client()
  call           \* the last call of a tool or of the client, and what came of it

VARIABLES
  real_client,   \* the module-level RealRubeMCPClient of real_rube_integration.py
  real_call      \* the last call of the real client, and what came of it

VARIABLES
  rube_client,   \* the module-level RubeMCPClient of rube_integration.py
  rube_pc,       \* the step test_rube_integration has completed
  rube_results   \* what the steps of test_rube_integration got, in order

VARIABLES
  setup          \* setup_frontend.py: the step main has reached and what the steps returned

VARIABLES
  deploy         \* deploy.py: its mode, the step reached, the commands it has started

VARIABLES
  env_vars,      \* save_env_file: the items of the mapping written
  env_text,      \* the content of the env file written, Missing before
  appended,      \* the <<key, value>> of a line added to the file by hand, <<>> when none
  loaded         \* load_env_file: whether it ran and the dict it returned

proxyVars == <<endpoint, request, backend, hashval, response>>
scriptVars == <<script, api_key, fn, at, idx, session_id, waiting, retval,
                sent, replies, results, started, outcome, simulated_only>>
sharedVars == <<cwd, main_thread, agent_thread, deploy_cwd, pnpm_cwd, cwd_accesses,
                worker, proxy_rube_client, job, op, op_result, flag_accesses,
                races, rube_initialized, observed_200, failed_initialize>>
envVars == <<agent_env, frontend_env, frontend_dir, sync, env_check>>
agentVars == <<proxy_client, call>>
rubeVars == <<rube_client, rube_pc, rube_results>>
realVars == <<real_client, real_call>>
setupVars == <<setup>>
deployVars == <<deploy>>
tripVars == <<env_vars, env_text, appended, loaded>>
vars == <<proxyVars, scriptVars, sharedVars, envVars, agentVars, rubeVars, realVars,
         setupVars, deployVars, tripVars>>

NoResponse == [status |-> 0, uncaught |-> FALSE, errors |-> <<>>, body |-> JNull]

ProxyInit ==
  /\ endpoint = "idle"
  /\ request = EmptyDict
  /\ backend = Backend("undefined", JNull)
  /\ hashval = 0
  /\ response = NoResponse

Running == [state |-> "running", value |-> JNull]

ScriptInit ==
  /\ script = "none"
  /\ api_key = FALSE
  /\ fn = "none"
  /\ at = "none"
  /\ idx = 0
  /\ session_id = JNull
  /\ waiting = FALSE
  /\ retval = Started
  /\ sent = <<>>
  /\ replies = <<>>
  /\ results = <<>>
  /\ started = <<>>
  /\ outcome = Running
  /\ simulated_only = TRUE

SharedInit ==
  /\ cwd = ProjectRoot
  /\ main_thread = "main"
  /\ agent_thread = "unstarted"
  /\ deploy_cwd = NotLaunched
  /\ pnpm_cwd = NotLaunched
  /\ cwd_accesses = {}
  /\ worker = "none"
  /\ proxy_rube_client = ProxyRubeMCPClient(FALSE)
  /\ job = [j \in Jobs |-> "none"]
  /\ op = [j \in Jobs |-> "idle"]
  /\ op_result = [j \in Jobs |-> "none"]
  /\ flag_accesses = {}
  /\ races = {}
  /\ rube_initialized = [j \in Jobs |-> "none"]
  /\ observed_200 = FALSE
  /\ failed_initialize = FALSE

EnvInit ==
  /\ agent_env = Missing
  /\ frontend_env = Missing
  /\ frontend_dir = TRUE
  /\ sync = [ran |-> FALSE, exit |-> 0, wrote |-> FALSE, before |-> Missing]
  /\ env_check = [ran |-> FALSE, ok |-> FALSE, msg |-> "", vars |-> <<>>]

AgentInit ==
  /\ proxy_client = ProxyRubeMCPClient(FALSE)
  /\ call = NoCall

RubeInit ==
  /\ rube_client = RubeMCPClient(FALSE)
  /\ rube_pc = "start"
  /\ rube_results = <<>>

NoSetup ==
  [pc |-> "start", exit |-> 0, installed |-> FALSE, sync_ran |-> FALSE,
   sync_cwd |-> NotLaunched, sync_source |-> NotLaunched, sync_exit |-> 0]

SetupInit == setup = NoSetup

NoDeploy ==
  [mode |-> "none", pc |-> "start", exit |-> 0, env_ok |-> "none", setup_ran |-> FALSE,
   returncode |-> 0, commands |-> <<>>, failed |-> {}, reported |-> FALSE]

DeployInit == deploy = NoDeploy

NotLoaded == [done |-> FALSE, vars |-> EmptyDict]

TripInit == env_vars = <<>> /\ env_text = Missing /\ appended = <<>> /\ loaded = NotLoaded

RealInit ==
  /\ real_client = RealRubeMCPClient(FALSE)
  /\ real_call = NoCall

Init == ProxyInit /\ ScriptInit /\ SharedInit /\ EnvInit /\ AgentInit /\ RubeInit /\ RealInit /\ SetupInit /\ DeployInit /\ TripInit

\* ------------------------------------------------------ proxy actions
\* POST /search-tools
PostSearchTools ==
  /\ endpoint = "idle"
  /\ \E req \in SearchRequests, b \in Backends :
       \E h \in IF b.mode = "undefined" THEN Hashes ELSE {0} :
         /\ endpoint' = "/search-tools"
         /\ request' = req
         /\ backend' = b
         /\ hashval' = h
         /\ response' = search_tools(req, b, h)
  /\ UNCHANGED <<scriptVars, sharedVars, envVars, agentVars, rubeVars, realVars, setupVars, deployVars, tripVars>>

\* POST /execute-workflow
PostExecuteWorkflow ==
  /\ endpoint = "idle"
  /\ \E req \in ExecRequests, b \in Backends :
         /\ endpoint' = "/execute-workflow"
         /\ request' = req
         /\ backend' = b
         /\ hashval' = 0
         /\ response' = execute_workflow(req, b)
  /\ UNCHANGED <<scriptVars, sharedVars, envVars, agentVars, rubeVars, realVars, setupVars, deployVars, tripVars>>

\* POST /manage-connections
PostManageConnections ==
  /\ endpoint = "idle"
  /\ \E req \in ManageRequests, b \in Backends :
         /\ endpoint' = "/manage-connections"
         /\ request' = req
         /\ backend' = b
         /\ hashval' = 0
         /\ response' = manage_connections(req, b)
  /\ UNCHANGED <<scriptVars, sharedVars, envVars, agentVars, rubeVars, realVars, setupVars, deployVars, tripVars>>

\* POST /create-plan
PostCreatePlan ==
  /\ endpoint = "idle"
  /\ \E req \in PlanRequests, b \in Backends :
         /\ endpoint' = "/create-plan"
         /\ request' = req
         /\ backend' = b
         /\ hashval' = 0
         /\ response' = create_plan(req, b)
  /\ UNCHANGED <<scriptVars, sharedVars, envVars, agentVars, rubeVars, realVars, setupVars, deployVars, tripVars>>

\* the response has been sent; the server waits for the next request
ResponseSent ==
  /\ endpoint # "idle"
  /\ endpoint' = "idle"
  /\ request' = EmptyDict
  /\ backend' = Backend("undefined", JNull)
  /\ hashval' = 0
  /\ response' = NoResponse
  /\ UNCHANGED <<scriptVars, sharedVars, envVars, agentVars, rubeVars, realVars, setupVars, deployVars, tripVars>>

Next ==
  \/ PostSearchTools
  \/ PostExecuteWorkflow
  \/ PostManageConnections
  \/ PostCreatePlan
  \/ ResponseSent

Spec == Init /\ [][Next]_vars

\* ----------------------------------------------------- script actions
\* apply what the entry point decided: call a function, end, or die
Continue(d) ==
  /\ results' = d.results
  /\ waiting' = FALSE
  /\ sent' = IF d.next.kind = "call" THEN <<>> ELSE sent
  /\ replies' = IF d.next.kind = "call" THEN <<>> ELSE replies
  /\ IF d.next.kind = "call"
     THEN LET e == Enter(d.next.fn, d.next.arg, api_key)
          IN /\ fn' = d.next.fn
             /\ started' = Append(started, d.next.fn)
             /\ at' = e.at
             /\ idx' = e.idx
             /\ session_id' = e.session_id
             /\ retval' = [kind |-> e.kind, value |-> e.value]
             /\ outcome' = outcome
     ELSE /\ fn' = "none"
          /\ at' = "none"
          /\ idx' = 0
          /\ session_id' = JNull
          /\ started' = started
          /\ retval' = retval
          /\ outcome' = IF d.next.kind = "finish"
                        THEN [state |-> "finished", value |-> d.next.value]
                        ELSE [state |-> "raised", value |-> JNull]

\* a script is started in some environment
StartScript ==
  /\ script = "none"
  /\ \E s \in Scripts, key \in BOOLEAN :
       /\ script' = s
       /\ api_key' = key
       /\ LET d == Driver(s, <<>>, "none", Started)
              e == Enter(d.next.fn, d.next.arg, key)
          IN /\ fn' = d.next.fn
             /\ started' = <<d.next.fn>>
             /\ at' = e.at
             /\ idx' = e.idx
             /\ session_id' = e.session_id
             /\ retval' = [kind |-> e.kind, value |-> e.value]
  /\ UNCHANGED <<waiting, sent, replies, results, outcome, simulated_only>>
  /\ UNCHANGED <<proxyVars, sharedVars, envVars, agentVars, rubeVars, realVars, setupVars, deployVars, tripVars>>

\* the function reaches its next `await client.post/get(...)`
Send ==
  /\ fn # "none"
  /\ at \notin {"none", "returned", "raised"}
  /\ ~waiting
  /\ sent' = Append(sent, RequestAt(fn, at, idx, session_id))
  /\ waiting' = TRUE
  /\ UNCHANGED <<script, api_key, fn, at, idx, session_id, retval, replies,
                 results, started, outcome, simulated_only>>
  /\ UNCHANGED <<proxyVars, sharedVars, envVars, agentVars, rubeVars, realVars, setupVars, deployVars, tripVars>>

\* the awaited call completes, in any of the ways it can, and the function
\* runs on to its next await, its return or the exception that leaves it
Receive ==
  /\ waiting
  /\ \E reply \in Replies(sent[Len(sent)]) :
       LET k == Step(fn, at, idx, session_id, reply)
       IN /\ replies' = Append(replies, StatusClass(reply))
          /\ at' = k.at
          /\ idx' = k.idx
          /\ session_id' = k.session_id
          /\ retval' = [kind |-> k.kind, value |-> k.value]
          /\ simulated_only' = (simulated_only /\ FromProxyItself(sent[Len(sent)], reply))
  /\ waiting' = FALSE
  /\ UNCHANGED <<script, api_key, fn, sent, results, started, outcome>>
  /\ UNCHANGED <<proxyVars, sharedVars, envVars, agentVars, rubeVars, realVars, setupVars, deployVars, tripVars>>

\* the function has returned or raised: its caller goes on
FunctionEnds ==
  /\ at \in {"returned", "raised"}
  /\ Continue(Driver(script, results, fn, retval))
  /\ UNCHANGED <<script, api_key, simulated_only>>
  /\ UNCHANGED <<proxyVars, sharedVars, envVars, agentVars, rubeVars, realVars, setupVars, deployVars, tripVars>>

ScriptNext ==
  \/ StartScript
  \/ Send
  \/ Receive
  \/ FunctionEnds

SpecScripts == Init /\ [][ScriptNext]_vars

\* --------------------------------------------------- start_both.py actions
startVars == <<cwd, main_thread, agent_thread, deploy_cwd, pnpm_cwd, cwd_accesses>>
workerVars == <<worker, proxy_rube_client, job, op, op_result, flag_accesses,
                rube_initialized, observed_200, failed_initialize>>

\* the process ends with its main thread: a daemon thread still running is dropped
ProcessExits == IF agent_thread \in {"chdir", "run", "deploy"} THEN "killed" ELSE agent_thread

\* a thread reads or writes the working directory
TouchCwd(thread, kind) ==
  /\ cwd_accesses' = cwd_accesses \cup {Access(thread, kind)}
  /\ races' = races \cup (IF Conflict(cwd_accesses, thread, kind) THEN {"cwd"} ELSE {})

\* main: agent_thread.start()
StartAgentThread ==
  /\ main_thread = "main"
  /\ main_thread' = "sleep"
  /\ agent_thread' = "chdir"
  /\ UNCHANGED <<cwd, deploy_cwd, pnpm_cwd, cwd_accesses, races>>
  /\ UNCHANGED <<agentVars, rubeVars, realVars, envVars, proxyVars, scriptVars, workerVars, setupVars, deployVars, tripVars>>

\* start_frontend: time.sleep(3)
FrontendSleep ==
  /\ main_thread = "sleep"
  /\ main_thread' = "chdir"
  /\ UNCHANGED <<cwd, agent_thread, deploy_cwd, pnpm_cwd, cwd_accesses, races>>
  /\ UNCHANGED <<agentVars, rubeVars, realVars, envVars, proxyVars, scriptVars, workerVars, setupVars, deployVars, tripVars>>

\* start_frontend: os.chdir("../agent-starter-react"); FileNotFoundError is
\* not caught by main, so the process ends
FrontendChdir ==
  /\ main_thread = "chdir"
  /\ LET r == chdir(cwd, start_frontend_dir) IN
       /\ cwd' = r.cwd
       /\ main_thread' = IF r.raised THEN "crashed" ELSE "run"
       /\ agent_thread' = IF r.raised THEN ProcessExits ELSE agent_thread
       /\ races' = races \cup
            (IF Conflict(cwd_accesses, "main", IF r.raised THEN "read" ELSE "write")
             THEN {"cwd"} ELSE {})
       /\ cwd_accesses' = IF r.raised THEN {}
                          ELSE cwd_accesses \cup {Access("main", "write")}
  /\ UNCHANGED <<deploy_cwd, pnpm_cwd>>
  /\ UNCHANGED <<agentVars, rubeVars, realVars, envVars, proxyVars, scriptVars, workerVars, setupVars, deployVars, tripVars>>

\* start_frontend: subprocess.run(["pnpm", "dev"]) starts the command in the
\* process's working directory
FrontendRun ==
  /\ main_thread = "run"
  /\ main_thread' = "pnpm"
  /\ pnpm_cwd' = cwd
  /\ TouchCwd("main", "read")
  /\ UNCHANGED <<cwd, agent_thread, deploy_cwd>>
  /\ UNCHANGED <<agentVars, rubeVars, realVars, envVars, proxyVars, scriptVars, workerVars, setupVars, deployVars, tripVars>>

\* pnpm dev exits: start_frontend and main return
FrontendExits ==
  /\ main_thread = "pnpm"
  /\ main_thread' = "done"
  /\ agent_thread' = ProcessExits
  /\ cwd_accesses' = {}
  /\ UNCHANGED <<cwd, deploy_cwd, pnpm_cwd, races>>
  /\ UNCHANGED <<agentVars, rubeVars, realVars, envVars, proxyVars, scriptVars, workerVars, setupVars, deployVars, tripVars>>

\* start_agent: os.chdir("agent-starter-python"); an exception ends the thread
AgentChdir ==
  /\ agent_thread = "chdir"
  /\ LET r == chdir(cwd, start_agent_dir) IN
       /\ cwd' = r.cwd
       /\ agent_thread' = IF r.raised THEN "crashed" ELSE "run"
       /\ races' = races \cup
            (IF Conflict(cwd_accesses, "agent_thread", IF r.raised THEN "read" ELSE "write")
             THEN {"cwd"} ELSE {})
       /\ cwd_accesses' = IF r.raised THEN Forget(cwd_accesses, {"agent_thread"})
                          ELSE cwd_accesses \cup {Access("agent_thread", "write")}
  /\ UNCHANGED <<main_thread, deploy_cwd, pnpm_cwd>>
  /\ UNCHANGED <<agentVars, rubeVars, realVars, envVars, proxyVars, scriptVars, workerVars, setupVars, deployVars, tripVars>>

\* start_agent: subprocess.run(["python", "deploy.py", "local"])
AgentRun ==
  /\ agent_thread = "run"
  /\ agent_thread' = "deploy"
  /\ deploy_cwd' = cwd
  /\ TouchCwd("agent_thread", "read")
  /\ UNCHANGED <<cwd, main_thread, pnpm_cwd>>
  /\ UNCHANGED <<agentVars, rubeVars, realVars, envVars, proxyVars, scriptVars, workerVars, setupVars, deployVars, tripVars>>

\* python deploy.py local: python finds no deploy.py outside
\* agent-starter-python; deploy_local exits when a check fails, and starts
\* the worker, which builds proxy_rube_client from its environment, otherwise
deploy_local ==
  /\ deploy_cwd # NotLaunched
  /\ worker = "none"
  /\ \E env_ok \in BOOLEAN, setup_ok \in BOOLEAN, key \in BOOLEAN :
       /\ worker' = IF deploy_cwd # AgentDir THEN "no_script"
                    ELSE IF env_ok /\ setup_ok THEN "running" ELSE "check_failed"
       /\ proxy_rube_client' = ProxyRubeMCPClient(key /\ worker' = "running")
  /\ UNCHANGED <<job, op, op_result, flag_accesses, races>>
  /\ UNCHANGED <<rube_initialized, observed_200, failed_initialize>>
  /\ UNCHANGED <<agentVars, rubeVars, realVars, envVars, proxyVars, scriptVars, startVars, setupVars, deployVars, tripVars>>

\* start_agent: subprocess.run returns when deploy.py has exited
AgentReturns ==
  /\ agent_thread = "deploy"
  /\ worker \in {"no_script", "check_failed"}
  /\ agent_thread' = "done"
  /\ cwd_accesses' = Forget(cwd_accesses, {"agent_thread"})
  /\ UNCHANGED <<cwd, main_thread, deploy_cwd, pnpm_cwd, races>>
  /\ UNCHANGED <<agentVars, rubeVars, realVars, envVars, proxyVars, scriptVars, workerVars, setupVars, deployVars, tripVars>>

\* ------------------------------------------------------ the worker's jobs
\* the worker is given a job and calls entrypoint
JobAssigned(j) ==
  /\ worker = "running"
  /\ job[j] = "none"
  /\ job' = [job EXCEPT ![j] = "initialize"]
  /\ UNCHANGED <<worker, proxy_rube_client, op, op_result, flag_accesses, races>>
  /\ UNCHANGED <<rube_initialized, observed_200, failed_initialize>>
  /\ UNCHANGED <<agentVars, rubeVars, realVars, envVars, proxyVars, scriptVars, startVars, setupVars, deployVars, tripVars>>

\* entrypoint: await initialize_proxy_rube(), up to the health request;
\* without an API key initialize returns False at once
InitializeBegins(j) ==
  /\ job[j] = "initialize"
  /\ job' = [job EXCEPT ![j] = initialize_request(proxy_rube_client)]
  /\ rube_initialized' = [rube_initialized EXCEPT ![j] =
                            IF initialize_request(proxy_rube_client) = "start"
                            THEN "False" ELSE @]
  /\ UNCHANGED <<worker, proxy_rube_client, op, op_result, flag_accesses, races>>
  /\ UNCHANGED <<observed_200, failed_initialize>>
  /\ UNCHANGED <<agentVars, rubeVars, realVars, envVars, proxyVars, scriptVars, startVars, setupVars, deployVars, tripVars>>

\* entrypoint: the health request is answered or fails, and initialize
\* returns into rube_initialized
InitializeEnds(j) ==
  /\ job[j] = "health"
  /\ \E reply \in {ConnError, Http(503), health_check} :
       /\ proxy_rube_client' = initialize(proxy_rube_client, reply)
       /\ rube_initialized' = [rube_initialized EXCEPT ![j] =
                                 IF reply.status = 200 THEN "True" ELSE "False"]
       /\ observed_200' = (observed_200 \/ reply.status = 200)
       /\ failed_initialize' =
            (failed_initialize \/ (reply.status # 200 /\ proxy_rube_client.initialized))
       /\ flag_accesses' = flag_accesses \cup
            (IF reply.status = 200 THEN {Access(j, "write")} ELSE {})
       /\ races' = races \cup
            (IF reply.status = 200 /\ Conflict(flag_accesses, j, "write")
             THEN {"initialized"} ELSE {})
  /\ job' = [job EXCEPT ![j] = "start"]
  /\ UNCHANGED <<worker, op, op_result>>
  /\ UNCHANGED <<agentVars, rubeVars, realVars, envVars, proxyVars, scriptVars, startVars, setupVars, deployVars, tripVars>>

\* entrypoint that gives up when the RUBE proxy could not be initialized
SessionStart_needs_rube(j) ==
  /\ job[j] = "start"
  /\ rube_initialized[j] = "True"
  /\ job' = [job EXCEPT ![j] = "session"]
  /\ UNCHANGED <<worker, proxy_rube_client, op, op_result, flag_accesses, races>>
  /\ UNCHANGED <<rube_initialized, observed_200, failed_initialize>>
  /\ UNCHANGED <<agentVars, rubeVars, realVars, envVars, proxyVars, scriptVars, startVars, setupVars, deployVars, tripVars>>

\* entrypoint: await session.start(...), whatever rube_initialized is
SessionStart(j) ==
  /\ job[j] = "start"
  /\ job' = [job EXCEPT ![j] = "session"]
  /\ UNCHANGED <<worker, proxy_rube_client, op, op_result, flag_accesses, races>>
  /\ UNCHANGED <<rube_initialized, observed_200, failed_initialize>>
  /\ UNCHANGED <<agentVars, rubeVars, realVars, envVars, proxyVars, scriptVars, startVars, setupVars, deployVars, tripVars>>

\* entrypoint: await ctx.connect()
Connect(j) ==
  /\ job[j] = "session"
  /\ job' = [job EXCEPT ![j] = "connected"]
  /\ UNCHANGED <<worker, proxy_rube_client, op, op_result, flag_accesses, races>>
  /\ UNCHANGED <<rube_initialized, observed_200, failed_initialize>>
  /\ UNCHANGED <<agentVars, rubeVars, realVars, envVars, proxyVars, scriptVars, startVars, setupVars, deployVars, tripVars>>

\* a tool call whose operation posts without looking at the flag
ToolCall_unchecked(j) ==
  /\ job[j] \in {"session", "connected"}
  /\ op[j] = "idle"
  /\ op' = [op EXCEPT ![j] = "posted"]
  /\ op_result' = [op_result EXCEPT ![j] = "none"]
  /\ flag_accesses' = flag_accesses \cup {Access(j, "read")}
  /\ races' = races \cup
       (IF Conflict(flag_accesses, j, "read") THEN {"initialized"} ELSE {})
  /\ UNCHANGED <<worker, proxy_rube_client, job>>
  /\ UNCHANGED <<rube_initialized, observed_200, failed_initialize>>
  /\ UNCHANGED <<agentVars, rubeVars, realVars, envVars, proxyVars, scriptVars, startVars, setupVars, deployVars, tripVars>>

\* a tool of the session calls an operation of get_proxy_rube_client()
ToolCall(j) ==
  /\ job[j] \in {"session", "connected"}
  /\ op[j] = "idle"
  /\ op' = [op EXCEPT ![j] = operation_request(proxy_rube_client)]
  /\ op_result' = [op_result EXCEPT ![j] =
                     IF proxy_rube_client.initialized THEN "none" ELSE "not_initialized"]
  /\ flag_accesses' = flag_accesses \cup {Access(j, "read")}
  /\ races' = races \cup
       (IF Conflict(flag_accesses, j, "read") THEN {"initialized"} ELSE {})
  /\ UNCHANGED <<worker, proxy_rube_client, job>>
  /\ UNCHANGED <<rube_initialized, observed_200, failed_initialize>>
  /\ UNCHANGED <<agentVars, rubeVars, realVars, envVars, proxyVars, scriptVars, startVars, setupVars, deployVars, tripVars>>

\* the operation's request is answered or fails
ToolReply(j) ==
  /\ op[j] = "posted"
  /\ \E class \in {"200", "non200", "error"} :
       op_result' = [op_result EXCEPT ![j] = operation(class)]
  /\ op' = [op EXCEPT ![j] = "idle"]
  /\ UNCHANGED <<worker, proxy_rube_client, job, flag_accesses, races>>
  /\ UNCHANGED <<rube_initialized, observed_200, failed_initialize>>
  /\ UNCHANGED <<agentVars, rubeVars, realVars, envVars, proxyVars, scriptVars, startVars, setupVars, deployVars, tripVars>>

\* the job's room closes and entrypoint's locals are gone
JobEnds(j) ==
  /\ job[j] = "connected"
  /\ op[j] = "idle"
  /\ job' = [job EXCEPT ![j] = "ended"]
  /\ op_result' = [op_result EXCEPT ![j] = "none"]
  /\ rube_initialized' = [rube_initialized EXCEPT ![j] = "none"]
  /\ flag_accesses' = Forget(flag_accesses, {j})
  /\ UNCHANGED <<worker, proxy_rube_client, op, races>>
  /\ UNCHANGED <<observed_200, failed_initialize>>
  /\ UNCHANGED <<agentVars, rubeVars, realVars, envVars, proxyVars, scriptVars, startVars, setupVars, deployVars, tripVars>>

\* the jobs of one worker, in any interleaving of their awaits
WorkerNext ==
  \/ \E j \in Jobs : JobAssigned(j)
  \/ \E j \in Jobs : InitializeBegins(j)
  \/ \E j \in Jobs : InitializeEnds(j)
  \/ \E j \in Jobs : SessionStart(j)
  \/ \E j \in Jobs : Connect(j)
  \/ \E j \in Jobs : ToolCall(j)
  \/ \E j \in Jobs : ToolReply(j)
  \/ \E j \in Jobs : JobEnds(j)

SharedNext ==
  \/ StartAgentThread
  \/ FrontendSleep
  \/ FrontendChdir
  \/ FrontendRun
  \/ FrontendExits
  \/ AgentChdir
  \/ AgentRun
  \/ deploy_local
  \/ AgentReturns
  \/ \E j \in Jobs : JobAssigned(j)
  \/ \E j \in Jobs : InitializeBegins(j)
  \/ \E j \in Jobs : InitializeEnds(j)
  \/ \E j \in Jobs : SessionStart(j)
  \/ \E j \in Jobs : Connect(j)
  \/ \E j \in Jobs : ToolCall(j)
  \/ \E j \in Jobs : ToolReply(j)
  \/ \E j \in Jobs : JobEnds(j)

SpecShared == Init /\ [][SharedNext]_vars

\* a worker started on its own (python src/agent.py dev) with RUBE_API_KEY
\* set or not
WorkerStart ==
  /\ ProxyInit /\ ScriptInit /\ EnvInit /\ AgentInit /\ RubeInit /\ SetupInit /\ DeployInit /\ TripInit
  /\ cwd = AgentDir
  /\ main_thread = "main"
  /\ agent_thread = "unstarted"
  /\ deploy_cwd = NotLaunched
  /\ pnpm_cwd = NotLaunched
  /\ cwd_accesses = {}
  /\ worker = "running"
  /\ proxy_rube_client \in {ProxyRubeMCPClient(key) : key \in BOOLEAN}
  /\ job = [j \in Jobs |-> "none"]
  /\ op = [j \in Jobs |-> "idle"]
  /\ op_result = [j \in Jobs |-> "none"]
  /\ rube_initialized = [j \in Jobs |-> "none"]
  /\ observed_200 = FALSE
  /\ failed_initialize = FALSE
  /\ flag_accesses = {}
  /\ races = {}

WorkerInit == WorkerStart /\ RealInit

SpecWorker == WorkerInit /\ [][WorkerNext]_vars

\* ------------------------------------------- the clients of the RUBE tools
\* await initialize_real_rube()
RealInitialize ==
  /\ real_client' = real_initialize(real_client).client
  /\ real_call' = [fn |-> "initialize", before |-> real_client,
                   success |-> real_initialize(real_client).ret, error |-> "",
                   sent |-> real_initialize(real_client).sent]
  /\ UNCHANGED <<rubeVars, agentVars, proxyVars, scriptVars, sharedVars, envVars, setupVars, deployVars, tripVars>>

\* a caller uses an operation of get_real_rube_client()
RealOperation ==
  /\ \E name \in RealOperations, odd \in BOOLEAN :
       LET r == real_operation(real_client, name, odd) IN
         real_call' = [fn |-> name, before |-> real_client, success |-> r.success,
                       error |-> r.error, sent |-> r.sent]
  /\ UNCHANGED real_client
  /\ UNCHANGED <<rubeVars, agentVars, proxyVars, scriptVars, sharedVars, envVars, setupVars, deployVars, tripVars>>

ClientsInit ==
  /\ WorkerStart
  /\ real_client \in {RealRubeMCPClient(key) : key \in BOOLEAN}
  /\ real_call = NoCall

ClientsNext ==
  \/ WorkerNext
  \/ RealInitialize
  \/ RealOperation

SpecClients == ClientsInit /\ [][ClientsNext]_vars

\* ------------------------------------------------------------ test_rube.py
\* the process starts with RUBE_API_KEY set or not, and rube_integration is
\* imported
RubeTestInit ==
  /\ ProxyInit /\ ScriptInit /\ SharedInit /\ EnvInit /\ AgentInit /\ RealInit /\ SetupInit /\ DeployInit /\ TripInit
  /\ rube_client \in {RubeMCPClient(key) : key \in BOOLEAN}
  /\ rube_pc = "start"
  /\ rube_results = <<>>

\* test_rube_integration, lines 25-29: the test returns False without the key
TestKeyCheck ==
  /\ rube_pc = "start"
  /\ rube_pc' = IF rube_client.api_key THEN "key_found" ELSE "no_key"
  /\ UNCHANGED <<rube_client, rube_results>>
  /\ UNCHANGED <<realVars, agentVars, proxyVars, scriptVars, sharedVars, envVars, setupVars, deployVars, tripVars>>

\* await initialize_rube(), by the test or by any other caller
RubeInitialize ==
  /\ rube_pc \in {"start", "key_found"}
  /\ rube_client' = rube_initialize(rube_client).client
  /\ rube_results' = <<[args |-> JNull, result |-> JBool(rube_initialize(rube_client).ret)]>>
  /\ rube_pc' = IF rube_initialize(rube_client).ret THEN "initialized" ELSE "init_failed"
  /\ UNCHANGED <<realVars, agentVars, proxyVars, scriptVars, sharedVars, envVars, setupVars, deployVars, tripVars>>

\* await client.search_tools(...)
RubeSearchTools ==
  /\ rube_pc = "initialized"
  /\ \E use_case \in ToolTexts, known_fields \in {<<>>, <<"x">>} :
       rube_results' = Append(rube_results,
                              [args |-> JStr(use_case),
                               result |-> rube_search_tools(use_case, known_fields)])
  /\ rube_pc' = "searched"
  /\ UNCHANGED rube_client
  /\ UNCHANGED <<realVars, agentVars, proxyVars, scriptVars, sharedVars, envVars, setupVars, deployVars, tripVars>>

\* await client.execute_workflow([...]) on a list of tool objects
RubeExecuteWorkflow ==
  /\ rube_pc = "searched"
  /\ \E tools \in SeqsUpTo(RubeTools, MaxTools), sid \in {JNull, JStr(<<"demo-session-123">>)} :
       rube_results' = Append(rube_results,
                              [args |-> JList(tools),
                               result |-> rube_execute_workflow(JList(tools), sid)])
  /\ rube_pc' = "executed"
  /\ UNCHANGED rube_client
  /\ UNCHANGED <<realVars, agentVars, proxyVars, scriptVars, sharedVars, envVars, setupVars, deployVars, tripVars>>

\* await client.manage_connections([...])
RubeManageConnections ==
  /\ rube_pc = "executed"
  /\ \E app_names \in AppNames :
       LET apps == JList([i \in 1..Len(app_names) |-> JStr(<<app_names[i]>>)]) IN
         rube_results' = Append(rube_results,
                                [args |-> apps, result |-> rube_manage_connections(apps)])
  /\ rube_pc' = "connected"
  /\ UNCHANGED rube_client
  /\ UNCHANGED <<realVars, agentVars, proxyVars, scriptVars, sharedVars, envVars, setupVars, deployVars, tripVars>>

RubeNext ==
  \/ TestKeyCheck
  \/ RubeInitialize
  \/ RubeSearchTools
  \/ RubeExecuteWorkflow
  \/ RubeManageConnections

SpecRube == RubeTestInit /\ [][RubeNext]_vars

\* ------------------------------------------------------ env file actions
\* the files sync_env.py and setup_check.py can find
EnvFilesInit ==
  /\ ProxyInit /\ ScriptInit /\ SharedInit /\ AgentInit /\ RubeInit /\ RealInit /\ SetupInit /\ DeployInit /\ TripInit
  /\ agent_env \in EnvFiles
  /\ frontend_dir \in BOOLEAN
  /\ frontend_env \in (IF frontend_dir THEN {Missing, OldFrontendFile} ELSE {Missing})
  /\ sync = [ran |-> FALSE, exit |-> 0, wrote |-> FALSE, before |-> Missing]
  /\ env_check = [ran |-> FALSE, ok |-> FALSE, msg |-> "", vars |-> <<>>]

\* python sync_env.py, run in the project root
SyncEnv ==
  /\ ~sync.ran
  /\ LET r == sync_env_main(agent_env, frontend_env, frontend_dir) IN
       /\ sync' = [ran |-> TRUE, exit |-> r.exit, wrote |-> r.wrote, before |-> frontend_env]
       /\ frontend_env' = r.file
  /\ UNCHANGED <<agent_env, frontend_dir, env_check>>
  /\ UNCHANGED <<proxyVars, scriptVars, sharedVars, agentVars, rubeVars, realVars, setupVars, deployVars, tripVars>>

\* setup_check.py check_env_file(), run in agent-starter-python
CheckEnvFile ==
  /\ ~env_check.ran
  /\ env_check' = check_env_file(agent_env)
  /\ UNCHANGED <<agent_env, frontend_env, frontend_dir, sync>>
  /\ UNCHANGED <<proxyVars, scriptVars, sharedVars, agentVars, rubeVars, realVars, setupVars, deployVars, tripVars>>

EnvNext ==
  \/ SyncEnv
  \/ CheckEnvFile

SpecEnv == EnvFilesInit /\ [][EnvNext]_vars

\* ------------------------------------------------- the tools of the agent
\* a worker whose environment sets RUBE_API_KEY or not
ToolsInit ==
  /\ ProxyInit /\ ScriptInit /\ SharedInit /\ EnvInit /\ RubeInit /\ RealInit /\ SetupInit /\ DeployInit /\ TripInit
  /\ proxy_client \in {ProxyRubeMCPClient(key) : key \in BOOLEAN}
  /\ call = NoCall

\* await initialize_proxy_rube()
InitializeProxyRube ==
  /\ \E reply \in ClientReplies(Req("GET", "/health", EmptyDict)) :
       LET r == proxy_initialize(proxy_client, reply) IN
         /\ proxy_client' = r.client
         /\ call' = Called("initialize", proxy_client,
                           IF r.sent = <<>> THEN NoResponse ELSE reply,
                           [sent |-> r.sent, result |-> JBool(r.ret), raised |-> FALSE], "")
  /\ UNCHANGED <<proxyVars, scriptVars, sharedVars, envVars, rubeVars, realVars, setupVars, deployVars, tripVars>>

\* the language model calls manage_calendar
ManageCalendar ==
  /\ \E action \in ToolTexts, details \in {<<"x">>} :
       \E reply \in ClientReplies(search_tools_request(
                       <<"c","a","l","e","n","d","a","r"," ">> \o action, details)) :
         LET t == manage_calendar(proxy_client, action, details, reply) IN
           call' = Called("manage_calendar", proxy_client,
                          IF t.op.sent = <<>> THEN NoResponse ELSE reply, t.op, t.message)
  /\ UNCHANGED proxy_client
  /\ UNCHANGED <<proxyVars, scriptVars, sharedVars, envVars, rubeVars, realVars, setupVars, deployVars, tripVars>>

\* the language model calls triage_email
TriageEmail ==
  /\ \E email_context \in {<<"x">>}, action_needed \in ToolTexts :
       \E reply \in ClientReplies(search_tools_request(
                       <<"e","m","a","i","l"," ">> \o action_needed, email_context)) :
         LET t == triage_email(proxy_client, email_context, action_needed, reply) IN
           call' = Called("triage_email", proxy_client,
                          IF t.op.sent = <<>> THEN NoResponse ELSE reply, t.op, t.message)
  /\ UNCHANGED proxy_client
  /\ UNCHANGED <<proxyVars, scriptVars, sharedVars, envVars, rubeVars, realVars, setupVars, deployVars, tripVars>>

\* the language model calls search_app_tools
SearchAppTools ==
  /\ \E task_description \in ToolTexts, known_info \in {<<>>, <<"x">>} :
       \E reply \in ClientReplies(search_tools_request(task_description, known_info)) :
         LET t == search_app_tools(proxy_client, task_description, known_info, reply) IN
           call' = Called("search_app_tools", proxy_client,
                          IF t.op.sent = <<>> THEN NoResponse ELSE reply, t.op, t.message)
  /\ UNCHANGED proxy_client
  /\ UNCHANGED <<proxyVars, scriptVars, sharedVars, envVars, rubeVars, realVars, setupVars, deployVars, tripVars>>

\* the language model calls execute_app_workflow
ExecuteAppWorkflow ==
  /\ \E tools_to_use \in ToolNames, sid \in SessionIds :
       \E reply \in ClientReplies(execute_workflow_request(
                       JList([i \in 1..Len(tools_to_use) |->
                                JObj([tool_slug |-> JStr(<<tools_to_use[i]>>),
                                      arguments |-> JObj(EmptyDict)])]), sid)) :
         LET t == execute_app_workflow(proxy_client, tools_to_use, sid, reply) IN
           call' = Called("execute_app_workflow", proxy_client,
                          IF t.op.sent = <<>> THEN NoResponse ELSE reply, t.op, t.message)
  /\ UNCHANGED proxy_client
  /\ UNCHANGED <<proxyVars, scriptVars, sharedVars, envVars, rubeVars, realVars, setupVars, deployVars, tripVars>>

\* the language model calls connect_to_apps
ConnectToApps ==
  /\ \E app_names \in AppNames :
       \E reply \in ClientReplies(manage_connections_request(
                       JList([i \in 1..Len(app_names) |-> JStr(<<app_names[i]>>)]))) :
         LET t == connect_to_apps(proxy_client, app_names, reply) IN
           call' = Called("connect_to_apps", proxy_client,
                          IF t.op.sent = <<>> THEN NoResponse ELSE reply, t.op, t.message)
  /\ UNCHANGED proxy_client
  /\ UNCHANGED <<proxyVars, scriptVars, sharedVars, envVars, rubeVars, realVars, setupVars, deployVars, tripVars>>

\* a caller uses ProxyRubeMCPClient.create_plan
CreatePlan ==
  /\ \E use_case \in ToolTexts, difficulty \in {<<"medium">>, <<"hard">>} :
       \E reply \in ClientReplies(create_plan_request(use_case, difficulty)) :
         LET r == proxy_operation(proxy_client, create_plan_request(use_case, difficulty), reply) IN
           call' = Called("create_plan", proxy_client,
                          IF r.sent = <<>> THEN NoResponse ELSE reply, r, "")
  /\ UNCHANGED proxy_client
  /\ UNCHANGED <<proxyVars, scriptVars, sharedVars, envVars, rubeVars, realVars, setupVars, deployVars, tripVars>>

ToolsNext ==
  \/ InitializeProxyRube
  \/ ManageCalendar
  \/ TriageEmail
  \/ SearchAppTools
  \/ ExecuteAppWorkflow
  \/ ConnectToApps
  \/ CreatePlan

SpecTools == ToolsInit /\ [][ToolsNext]_vars

\* ============================================================ properties
Simulated == endpoint # "idle" /\ backend.mode = "undefined"

\* the fields a handler reads have the JSON types its code expects
WellTyped ==
  /\ "use_case" \in DOMAIN request => request.use_case.t = "str"
  /\ "tools" \in DOMAIN request => IsListOf(request.tools, {"obj"})
  /\ "toolkits" \in DOMAIN request => IsListOf(request.toolkits, {"str"})
  /\ "session_id" \in DOMAIN request => request.session_id.t = "str"
  /\ "difficulty" \in DOMAIN request => request.difficulty.t = "str"

\* C1: while the backend name is undefined, a well-typed request to any of
\* the four POST endpoints is answered 200 with {"success": true, "data": d}
\* where d is the simulated result and has a "note"; it is never a 500.
C1_FallbackAnswers200 ==
  (Simulated /\ WellTyped) =>
     /\ response.status = 200
     /\ ~response.uncaught
     /\ response.body.t = "obj"
     /\ DOMAIN response.body.v = {"success", "data"}
     /\ response.body.v.success = JBool(TRUE)
     /\ HasKey(response.body.v.data, "note")

C1_Witness ==
  /\ Simulated /\ WellTyped
  /\ endpoint = "/manage-connections"
  /\ "toolkits" \in DOMAIN request /\ Len(request.toolkits.v) = 2
  /\ response.status = 200

\* k occurs in s at some position
Occurs(k, s) == \E i \in 1..(Len(s) - Len(k) + 1) : SubSeq(s, i, i + Len(k) - 1) = k

NoDuplicates(q) == \A i, j \in 1..Len(q) : q[i] = q[j] => i = j

SimulatedSearch == Simulated /\ endpoint = "/search-tools" /\ response.status = 200

\* C2: in the simulated search the tools are the groups whose keyword occurs
\* in the lower-cased use_case, concatenated in the order email, slack,
\* document, calendar, social, or the three default tools when none occurs;
\* the list is never empty, has no duplicates, and "reasoning" states its length.
C2_SimulatedToolsByKeyword ==
  SimulatedSearch =>
    LET data == response.body.v.data.v
        tools == data.tools.v
        lc == lower(Get(request, "use_case", JStr(<<>>)).v)
        g1 == IF Occurs(kw_email, lc) THEN EmailTools ELSE <<>>
        g2 == IF Occurs(kw_slack, lc) \/ Occurs(kw_message, lc) THEN SlackTools ELSE <<>>
        g3 == IF Occurs(kw_document, lc) \/ Occurs(kw_doc, lc) THEN DocTools ELSE <<>>
        g4 == IF Occurs(kw_calendar, lc) \/ Occurs(kw_meeting, lc) THEN CalendarTools ELSE <<>>
        g5 == IF Occurs(kw_social, lc) \/ Occurs(kw_linkedin, lc) \/ Occurs(kw_twitter, lc)
              THEN SocialTools ELSE <<>>
        all == g1 \o g2 \o g3 \o g4 \o g5
    IN /\ tools = IF all = <<>> THEN DefaultTools ELSE all
       /\ Len(tools) > 0
       /\ NoDuplicates(tools)
       /\ data.reasoning.v = <<"Found ">> \o DecStr(Len(tools)) \o <<" tools for: ">> \o lc

C2_Witness ==
  /\ SimulatedSearch
  /\ "use_case" \in DOMAIN request
  /\ request.use_case.v # lower(request.use_case.v)
  /\ response.body.v.data.v.tools.v = EmailTools \o SlackTools

SimulatedExec ==
  /\ Simulated /\ endpoint = "/execute-workflow"
  /\ "tools" \in DOMAIN request /\ IsListOf(request.tools, {"obj"})

\* C3: in the simulated execution of a list of n tool objects, results has n
\* entries in request order, each with status "simulated" and the tool's
\* tool_slug ("unknown" when it has none); message reports n; session_id is
\* the request's session_id, "" when the request has none.
C3_SimulatedResultsMatchTools ==
  SimulatedExec =>
    /\ response.status = 200
    /\ LET data == response.body.v.data.v
           tools == request.tools.v
           n == Len(tools)
       IN /\ data.results.t = "list"
          /\ Len(data.results.v) = n
          /\ \A i \in 1..n :
               /\ data.results.v[i].v.status = JStr(<<"simulated">>)
               /\ data.results.v[i].v.tool =
                    IF "tool_slug" \in DOMAIN tools[i].v THEN tools[i].v.tool_slug
                    ELSE JStr(<<"unknown">>)
          /\ data.message = JStr(<<"Simulated execution of ">> \o DecStr(n) \o <<" tools">>)
          /\ data.session_id = IF "session_id" \in DOMAIN request THEN request.session_id
                               ELSE JStr(<<>>)

C3_Witness ==
  /\ SimulatedExec
  /\ Len(request.tools.v) = 2
  /\ "tool_slug" \in DOMAIN request.tools.v[1].v
  /\ "tool_slug" \notin DOMAIN request.tools.v[2].v
  /\ "session_id" \in DOMAIN request
  /\ response.status = 200

IsDigit(c) == \E i \in 1..10 : Digit[i] = c

\* C4: the simulated search's session_id is "session-" followed by the
\* decimal form of an integer in 0..9999 (one to four digits, no sign, no
\* leading zero), whatever the sign of the hash; so it is never falsy.
C4_SessionIdInRange ==
  SimulatedSearch =>
    LET sid == response.body.v.data.v.session_id
        num == SubSeq(sid.v, 9, Len(sid.v))
    IN /\ sid.t = "str"
       /\ Truthy(sid)
       /\ SubSeq(sid.v, 1, 8) = <<"s","e","s","s","i","o","n","-">>
       /\ Len(num) \in 1..4
       /\ \A i \in 1..Len(num) : IsDigit(num[i])
       /\ Len(num) > 1 => num[1] # "0"

C4_Witness ==
  /\ SimulatedSearch
  /\ hashval < 0 - 10000
  /\ Len(response.body.v.data.v.session_id.v) = 12

\* C6: every failure in a POST handler other than the missing backend is
\* caught, logged and answered with a 500 whose detail is the exception
\* message; no exception leaves a handler.
C6_EveryFailureCaught ==
  endpoint # "idle" =>
    /\ ~response.uncaught
    /\ response.status # 200 =>
         /\ response.status = 500
         /\ Len(response.errors) = 1
         /\ response.body = JObj([detail |-> JStr(response.errors[1].msg)])

\* ------------------------------------------------ setup_frontend.py actions
\* python setup_frontend.py in a project whose agent env file is in any state
SetupFilesInit ==
  /\ ProxyInit /\ ScriptInit /\ SharedInit /\ AgentInit /\ RubeInit /\ RealInit
  /\ DeployInit /\ TripInit
  /\ agent_env \in EnvFiles
  /\ frontend_dir \in BOOLEAN
  /\ frontend_env \in (IF frontend_dir THEN {Missing, OldFrontendFile} ELSE {Missing})
  /\ sync = [ran |-> FALSE, exit |-> 0, wrote |-> FALSE, before |-> Missing]
  /\ env_check = [ran |-> FALSE, ok |-> FALSE, msg |-> "", vars |-> <<>>]
  /\ setup = NoSetup

\* main, lines 202-205: check_prerequisites()
CheckPrerequisites ==
  /\ setup.pc = "start"
  /\ \E node_ok \in BOOLEAN, pnpm_ok \in BOOLEAN :
       setup' = IF check_prerequisites(node_ok, pnpm_ok, agent_env)
                THEN [setup EXCEPT !.pc = "prerequisites"]
                ELSE [setup EXCEPT !.pc = "exited", !.exit = 1]
  /\ UNCHANGED <<proxyVars, scriptVars, sharedVars, envVars, agentVars, rubeVars, realVars, deployVars, tripVars>>

\* main, lines 207-224: setup_frontend() and, when it returns True,
\* create_startup_scripts() and the closing messages
SetupFrontend ==
  /\ setup.pc = "prerequisites"
  /\ \E install_ok \in BOOLEAN :
       LET r == setup_frontend(install_ok, agent_env, frontend_env, frontend_dir) IN
         /\ setup' = [pc |-> IF r.ret THEN "done" ELSE "exited",
                      exit |-> IF r.ret THEN 0 ELSE 1,
                      installed |-> r.installed, sync_ran |-> r.sync_ran,
                      sync_cwd |-> r.sync_cwd, sync_source |-> r.sync_source,
                      sync_exit |-> r.sync_exit]
         /\ frontend_env' = r.frontend_file
  /\ UNCHANGED <<agent_env, frontend_dir, sync, env_check>>
  /\ UNCHANGED <<proxyVars, scriptVars, sharedVars, agentVars, rubeVars, realVars, deployVars, tripVars>>

SetupNext ==
  \/ CheckPrerequisites
  \/ SetupFrontend

SpecSetup == SetupFilesInit /\ [][SetupNext]_vars

\* --------------------------------------------------------- deploy.py actions
\* python deploy.py <mode> in agent-starter-python, whose .env.local is in
\* any state
DeployFilesInit ==
  /\ ProxyInit /\ ScriptInit /\ SharedInit /\ AgentInit /\ RubeInit /\ RealInit
  /\ SetupInit /\ TripInit
  /\ agent_env \in EnvFiles
  /\ frontend_dir = TRUE
  /\ frontend_env = Missing
  /\ sync = [ran |-> FALSE, exit |-> 0, wrote |-> FALSE, before |-> Missing]
  /\ env_check = [ran |-> FALSE, ok |-> FALSE, msg |-> "", vars |-> <<>>]
  /\ deploy \in {[NoDeploy EXCEPT !.mode = mode] : mode \in Modes}

\* deploy_local, lines 83-89: check_env_file()
DeployLocalEnv ==
  /\ deploy.mode = "local" /\ deploy.pc = "start"
  /\ deploy' = IF deploy_check_env_file(agent_env).ok
               THEN [deploy EXCEPT !.pc = "env_ok", !.env_ok = "True"]
               ELSE [deploy EXCEPT !.pc = "exited", !.env_ok = "False", !.exit = 1]
  /\ UNCHANGED <<proxyVars, scriptVars, sharedVars, envVars, agentVars, rubeVars, realVars, setupVars, tripVars>>

\* deploy_local, lines 91-100: uv run python setup_check.py
DeployLocalSetup ==
  /\ deploy.mode = "local" /\ deploy.pc = "env_ok"
  /\ \E uv_ok \in BOOLEAN, deps_ok \in BOOLEAN :
       LET r == deploy_local_setup(uv_ok, setup_check_main(agent_env, deps_ok)) IN
         deploy' = [deploy EXCEPT !.pc = r.next, !.setup_ran = r.ran,
                                  !.returncode = r.returncode, !.exit = r.exit,
                                  !.commands = IF uv_ok THEN Append(@, "setup_check.py") ELSE @,
                                  !.failed = IF uv_ok THEN @ ELSE @ \cup {"uv"}]
  /\ UNCHANGED <<proxyVars, scriptVars, sharedVars, envVars, agentVars, rubeVars, realVars, setupVars, tripVars>>

\* deploy_local, lines 102-109: uv run python src/agent.py start
DeployLocalAgent ==
  /\ deploy.mode = "local" /\ deploy.pc = "verified"
  /\ deploy' = [deploy EXCEPT !.pc = "agent", !.commands = Append(@, "src/agent.py start")]
  /\ UNCHANGED <<proxyVars, scriptVars, sharedVars, envVars, agentVars, rubeVars, realVars, setupVars, tripVars>>

\* the agent process ends or is interrupted, and deploy.py ends
DeployLocalEnds ==
  /\ deploy.mode = "local" /\ deploy.pc = "agent"
  /\ deploy' = [deploy EXCEPT !.pc = "done"]
  /\ UNCHANGED <<proxyVars, scriptVars, sharedVars, envVars, agentVars, rubeVars, realVars, setupVars, tripVars>>

\* main, build and docker modes: check_docker()
DockerVersion ==
  /\ deploy.mode \in {"docker", "build"} /\ deploy.pc = "start"
  /\ \E succeeds \in BOOLEAN :
       LET r == docker_found(succeeds) IN
         deploy' = [deploy EXCEPT
                      !.pc = IF r.next = "exited" THEN "exited"
                             ELSE IF deploy.mode = "build" THEN "build" ELSE "inspect",
                      !.exit = r.exit, !.reported = r.reported,
                      !.commands = Append(@, "docker --version"),
                      !.failed = IF succeeds THEN @ ELSE @ \cup {"docker --version"}]
  /\ UNCHANGED <<proxyVars, scriptVars, sharedVars, envVars, agentVars, rubeVars, realVars, setupVars, tripVars>>

\* main, docker mode, lines 146-150: docker image inspect
DockerInspect ==
  /\ deploy.pc = "inspect"
  /\ \E succeeds \in BOOLEAN :
       deploy' = [deploy EXCEPT
                    !.pc = image_inspect(succeeds),
                    !.commands = Append(@, "docker image inspect"),
                    !.failed = IF succeeds THEN @ ELSE @ \cup {"docker image inspect"}]
  /\ UNCHANGED <<proxyVars, scriptVars, sharedVars, envVars, agentVars, rubeVars, realVars, setupVars, tripVars>>

\* build_docker_image: the SystemExit of a failed build ends the script
DockerBuild ==
  /\ deploy.pc = "build"
  /\ \E succeeds \in BOOLEAN :
       deploy' = [deploy EXCEPT
                    !.pc = IF run_command(succeeds).raised # "none" THEN "exited"
                           ELSE IF deploy.mode = "build" THEN "done" ELSE "run",
                    !.exit = run_command(succeeds).exit,
                    !.commands = Append(@, "docker build"),
                    !.failed = IF succeeds THEN @ ELSE @ \cup {"docker build"}]
  /\ UNCHANGED <<proxyVars, scriptVars, sharedVars, envVars, agentVars, rubeVars, realVars, setupVars, tripVars>>

\* run_docker_container: detached through run_command, interactive through
\* os.system, whose status is not looked at
DockerRun ==
  /\ deploy.pc = "run"
  /\ \E detached \in BOOLEAN, succeeds \in BOOLEAN :
       deploy' = IF agent_env = Missing
                 THEN [deploy EXCEPT !.pc = "exited", !.exit = 1]
                 ELSE [deploy EXCEPT
                         !.pc = IF detached /\ run_command(succeeds).raised # "none"
                                THEN "exited" ELSE "done",
                         !.exit = IF detached THEN run_command(succeeds).exit ELSE 0,
                         !.commands = Append(@, "docker run"),
                         !.failed = IF succeeds THEN @ ELSE @ \cup {"docker run"}]
  /\ UNCHANGED <<proxyVars, scriptVars, sharedVars, envVars, agentVars, rubeVars, realVars, setupVars, tripVars>>

DeployNext ==
  \/ DeployLocalEnv
  \/ DeployLocalSetup
  \/ DeployLocalAgent
  \/ DeployLocalEnds
  \/ DockerVersion
  \/ DockerInspect
  \/ DockerBuild
  \/ DockerRun

SpecDeploy == DeployFilesInit /\ [][DeployNext]_vars

\* ------------------------------------------- env files written and read back
RoundTripInit ==
  /\ ProxyInit /\ ScriptInit /\ SharedInit /\ EnvInit /\ AgentInit /\ RubeInit /\ RealInit
  /\ SetupInit /\ DeployInit
  /\ env_vars \in Mappings(MaxVars)
  /\ env_text = Missing
  /\ appended = <<>>
  /\ loaded = NotLoaded

\* save_env_file(file_path, env_vars)
SaveEnvFile ==
  /\ env_text = Missing /\ ~loaded.done
  /\ env_text' = save_env_file(env_vars)
  /\ UNCHANGED <<env_vars, appended, loaded>>
  /\ UNCHANGED <<proxyVars, scriptVars, sharedVars, envVars, agentVars, rubeVars, realVars, setupVars, deployVars>>

\* a line for a key of the file is added at its end by hand
EditEnvFile ==
  /\ env_text # Missing /\ appended = <<>> /\ ~loaded.done
  /\ \E i \in 1..Len(env_vars), value \in EditValues :
       /\ appended' = <<env_vars[i][1], value>>
       /\ env_text' = env_text \o <<"\n">> \o env_vars[i][1] \o <<"=">> \o value
  /\ UNCHANGED <<env_vars, loaded>>
  /\ UNCHANGED <<proxyVars, scriptVars, sharedVars, envVars, agentVars, rubeVars, realVars, setupVars, deployVars>>

\* load_env_file(file_path)
LoadEnvFile ==
  /\ ~loaded.done
  /\ loaded' = [done |-> TRUE, vars |-> load_env_file(env_text)]
  /\ UNCHANGED <<env_vars, env_text, appended>>
  /\ UNCHANGED <<proxyVars, scriptVars, sharedVars, envVars, agentVars, rubeVars, realVars, setupVars, deployVars>>

RoundTripNext ==
  \/ SaveEnvFile
  \/ EditEnvFile
  \/ LoadEnvFile

SpecRoundTrip == RoundTripInit /\ [][RoundTripNext]_vars

\* ------------------------------------------------- properties of scripts
TestStages == <<"test_proxy_server", "test_workflow_execution",
                "test_connection_management", "test_agent_proxy_connection">>

\* C5: run_complete_test runs proxy search, workflow execution, connection
\* management, agent-proxy connection in that order; a stage is started only
\* after every earlier one succeeded; the first failing stage ends the run
\* with False; True is returned only after four successes; the workflow
\* request carries the session_id the search stage returned.
C5_StagesInOrderStopAtFirstFailure ==
  script = "run_complete_test" =>
    /\ Len(started) <= 4
    /\ \A n \in 1..Len(started) : started[n] = TestStages[n]
    /\ Len(results) <= Len(started) /\ Len(started) <= Len(results) + 1
    /\ \A n \in 1..Len(results) : results[n].name = TestStages[n]
    /\ \A n \in 1..Len(results) :
         ~Truthy(results[n].value) =>
            /\ n = Len(results) /\ Len(started) = n
            /\ outcome = [state |-> "finished", value |-> False]
    /\ outcome.state \in {"running", "finished"}
    /\ outcome = [state |-> "finished", value |-> True] =>
         /\ Len(results) = 4
         /\ \A n \in 1..4 : Truthy(results[n].value)
    /\ (fn = "test_workflow_execution" /\ Len(sent) > 0) =>
         /\ sent[1].url = "/execute-workflow"
         /\ sent[1].body.session_id = results[1].value

C5_Witness ==
  /\ script = "run_complete_test"
  /\ outcome = [state |-> "finished", value |-> True]
  /\ Len(results) = 4
  /\ Len(results[1].value.v) = 12

\* the function that issued the requests in `sent`: the last one called
Issuer == IF Len(started) = 0 THEN "none" ELSE started[Len(started)]

\* a request that failed is not sent again by the same function invocation
NeverReissued ==
  \A j \in 1..Len(replies) : replies[j] # "200" =>
     \A n \in (j + 1)..Len(sent) : sent[n] # sent[j]

Slug(req) == req.body.tools.v[1].v.tool_slug.v[1]

\* C9: in every workflow at most one request is in flight and a request is
\* issued only after the reply to the previous one; in the meeting workflow
\* an invitation is sent only if the calendar request answered 200, and the
\* agenda request only after the three invitation requests have completed.
C9_WorkflowCallsSequential ==
  (\E w \in 1..Len(workflows) : fn = workflows[w]) =>
    /\ Len(replies) <= Len(sent) /\ Len(sent) <= Len(replies) + 1
    /\ waiting <=> Len(sent) = Len(replies) + 1
    /\ fn = "workflow_meeting_automation" =>
         \A n \in 1..Len(sent) :
           /\ Slug(sent[n]) = "GMAIL_SEND_EMAIL" =>
                /\ Slug(sent[1]) = "GOOGLE_CALENDAR_CREATE_EVENT"
                /\ replies[1] = "200"
           /\ Slug(sent[n]) = "GOOGLE_DOCS_CREATE" =>
                /\ n = 5
                /\ \A m \in 2..4 : Slug(sent[m]) = "GMAIL_SEND_EMAIL"
                /\ Len(replies) >= 4

C9_Witness ==
  /\ fn = "workflow_meeting_automation"
  /\ Len(sent) = 5
  /\ replies[3] = "non200"
  /\ waiting

DemoTestScripts == {"run_complete_test", "run_advanced_workflows", "run_complete_demo"}

C8_NoSharedMutableState == races = {}

\* the values the lines of an env file give a variable
Values(file, var) ==
  IF file = Missing THEN {}
  ELSE LET lines == splitlines(file)
           Line(n) == strip(lines[n])
           Eq(n) == FirstIndex(Line(n), "=")
       IN { SubSeq(Line(n), Eq(n) + 1, Len(Line(n))) :
              n \in { m \in 1..Len(lines) :
                        /\ Line(m) # <<>>
                        /\ Head(Line(m)) # "#"
                        /\ Eq(m) # 0
                        /\ strip(SubSeq(Line(m), 1, Eq(m) - 1)) = <<var>> } }

\* the agent env file exists and gives each of the three LiveKit variables
\* a value that does not start with "your_"
SyncReady ==
  /\ agent_env # Missing
  /\ \A i \in 1..Len(sync_required_vars) :
       \E value \in Values(agent_env, sync_required_vars[i]) :
         ~StartsWith(value, <<"your_">>)

\* C11: sync_env.main writes the frontend env file only if the agent env
\* file exists and gives LIVEKIT_URL, LIVEKIT_API_KEY and LIVEKIT_API_SECRET
\* values that do not start with "your_"; in every other case it exits
\* with status 1 and the frontend env file is as it was
C11_SyncWritesOnlyConfigured ==
  sync.ran =>
    /\ sync.wrote => SyncReady
    /\ frontend_env # sync.before => sync.wrote
    /\ ~SyncReady => sync.exit = 1 /\ ~sync.wrote /\ frontend_env = sync.before

C11_Witness ==
  /\ sync.ran /\ sync.wrote /\ sync.exit = 0
  /\ frontend_env # sync.before
  /\ In(<<"LIVEKIT_URL", "=", "value", "\n">>, frontend_env)

\* .env.local exists and gives each of the six required variables a
\* non-empty value that is not a "your_" placeholder
Configured ==
  /\ agent_env # Missing
  /\ \A i \in 1..Len(required_vars) :
       \E value \in Values(agent_env, required_vars[i]) :
         strip(value) # <<>> /\ ~StartsWith(strip(value), <<"your_">>)

\* C12: setup_check.check_env_file returns True, with the message "All
\* environment variables configured", exactly when .env.local exists and
\* gives all six required variables non-empty values that are not
\* placeholders
C12_CheckEnvFileExactlyWhenConfigured ==
  env_check.ran =>
    /\ env_check.ok <=> Configured
    /\ env_check.ok => env_check.msg = "All environment variables configured"

\* C13: ProxyRubeMCPClient.initialize returns True if and only if
\* RUBE_API_KEY was set when the client was built and GET /health answered
\* 200; it sets initialized to True exactly when it returns True; without
\* the key it returns False and sends no request; on any other answer or a
\* connection error it returns False and leaves initialized as it was
C13_InitializeContract ==
  call.fn = "initialize" =>
    /\ call.result.v <=>
         (call.before.api_key /\ call.sent # <<>> /\ call.reply.status = 200)
    /\ call.result.v => proxy_client.initialized
    /\ ~call.result.v => proxy_client.initialized = call.before.initialized
    /\ ~call.before.api_key => ~call.result.v /\ call.sent = <<>>
    /\ call.before.api_key => call.sent = <<Req("GET", "/health", EmptyDict)>>
    /\ proxy_client.api_key = call.before.api_key

C13_Witness ==
  /\ call.fn = "initialize"
  /\ call.result.v
  /\ ~call.before.initialized
  /\ proxy_client.initialized

\* the tools of the agent that go through the proxy client
ProxyTools ==
  {"manage_calendar", "triage_email", "search_app_tools", "execute_app_workflow",
   "connect_to_apps"}

\* the proxy could not be used by the call: the client was not initialized,
\* the request failed, or the answer was not 200
ProxyUnusable ==
  \/ ~call.before.initialized
  \/ call.sent = <<>>
  \/ call.reply.status # 200

\* C16: each proxy-backed tool of the agent returns its fallback message
\* whenever the client is not initialized, the request fails, or the
\* answer is not 200
C16_ToolsFallBack ==
  (call.fn \in ProxyTools /\ ProxyUnusable) => call.message = Fallback(call.fn)

\* C17: execute_app_workflow says "Done. I executed ..." only if the client
\* was initialized and POST /execute-workflow answered 200
C17_DoneOnlyWhenExecuted ==
  (call.fn = "execute_app_workflow" /\ call.message = "Done. I executed") =>
    /\ call.before.initialized
    /\ call.sent # <<>>
    /\ call.reply.status = 200

\* the dictionary an operation returns for a failure: success False and a
\* message
IsErrorResult(j) ==
  /\ j.t = "obj"
  /\ DOMAIN j.v = {"success", "error"}
  /\ j.v["success"] = False
  /\ j.v["error"].t = "str"

\* C20: no operation of an initialized ProxyRubeMCPClient raises, whatever
\* the HTTP outcome: a 200 answer with a JSON object gives its "data" ({}
\* when absent), another status gives success False with error
\* "HTTP <status>", a connection error or a body that is no JSON object gives
\* success False with a message; the client is left as it was
C20_OperationsNeverRaise ==
  (call.fn \in ProxyTools \cup {"create_plan"} /\ call.before.initialized) =>
    /\ ~call.raised
    /\ Len(call.sent) = 1
    /\ (call.reply.status = 200 /\ call.reply.body.t = "obj") =>
         call.result = (IF "data" \in DOMAIN call.reply.body.v
                        THEN call.reply.body.v["data"] ELSE JObj(EmptyDict))
    /\ call.reply.status \notin {0, 200} =>
         call.result = JObj([success |-> False,
                             error |-> JStr(<<"HTTP ">> \o DecStr(call.reply.status))])
    /\ (call.reply.status = 0 \/ (call.reply.status = 200 /\ call.reply.body.t # "obj")) =>
         IsErrorResult(call.result)
    /\ proxy_client = call.before

C20_Witness ==
  /\ call.fn \in ProxyTools \cup {"create_plan"}
  /\ call.before.initialized
  /\ call.reply.status = 200
  /\ call.reply.body.t # "obj"
  /\ IsErrorResult(call.result)

\* C14: entrypoint tries to initialize the RUBE proxy client first, then
\* starts the session, then connects to the room; a failed initialization
\* is only recorded, the session can still start and the room can still be
\* joined
C14_InitThenSessionThenRoom ==
  /\ [][\A j \in Jobs :
          /\ (job'[j] = "session" /\ job[j] # "session") =>
               (job[j] = "start" /\ rube_initialized[j] \in {"True", "False"})
          /\ (job'[j] = "connected" /\ job[j] # "connected") => job[j] = "session"]_vars
  /\ [](\A j \in Jobs :
          /\ job[j] \in {"session", "connected"} => rube_initialized[j] # "none"
          /\ job[j] = "start" => ENABLED SessionStart(j)
          /\ job[j] = "session" => ENABLED Connect(j))

C14_Witness ==
  \E j \in Jobs : job[j] = "connected" /\ rube_initialized[j] = "False"

\* C18: an operation of the proxy client or of the real client that is
\* called while initialized is False returns success False with an error
\* and sends no HTTP request; in every interleaving of initialize() and
\* operations on the shared proxy client a request is sent only after some
\* initialize() has seen a 200 answer
C18_NoRequestBeforeInitialized ==
  /\ [](\A j \in Jobs : op[j] = "posted" => observed_200)
  /\ [][\A j \in Jobs :
          /\ (op[j] = "idle" /\ op'[j] = "posted") =>
               (proxy_rube_client.initialized /\ observed_200)
          /\ (~proxy_rube_client.initialized /\ job'[j] = job[j]
                /\ op_result'[j] # op_result[j]) =>
               (op_result'[j] = "not_initialized" /\ op'[j] = "idle")]_vars
  /\ [](real_call.fn \in RealOperations \cup {"initialize"} =>
          /\ real_call.sent = 0
          /\ (real_call.fn \in RealOperations /\ ~real_call.before.initialized) =>
               (~real_call.success /\ real_call.error = "RUBE client not initialized"))

C18_Witness ==
  /\ \E j, k \in Jobs : op_result[j] = "not_initialized" /\ op[k] = "posted"
  /\ real_call.fn \in RealOperations
  /\ ~real_call.before.initialized

\* C19: the initialized flag of the proxy client starts False and, once
\* True, never becomes False again, whether a later initialize() fails or an
\* operation meets a connection error; after such a failure an operation
\* still sends its request instead of answering "not initialized"
C19_FlagMonotonic ==
  /\ ~proxy_rube_client.initialized
  /\ [][/\ proxy_rube_client.initialized => proxy_rube_client'.initialized
        /\ \A j \in Jobs :
             (proxy_rube_client.initialized /\ op_result'[j] = "not_initialized") =>
               op_result[j] = "not_initialized"]_vars
  /\ [](\A j \in Jobs :
          (proxy_rube_client.initialized /\ job[j] \in {"session", "connected"}
             /\ op[j] = "idle") =>
            ENABLED (ToolCall(j) /\ op'[j] = "posted"))

C19_Witness ==
  /\ failed_initialize
  /\ proxy_rube_client.initialized
  /\ \E j, k \in Jobs :
       /\ rube_initialized[j] = "False" /\ op[j] = "posted"
       /\ op_result[k] = "exception"

\* the steps of the sequence that have reported, by the step reached
RubeDone(step) ==
  CASE step = "initialize" -> rube_pc \in {"initialized", "searched", "executed", "connected"}
    [] step = "search"     -> rube_pc \in {"searched", "executed", "connected"}
    [] step = "execute"    -> rube_pc \in {"executed", "connected"}
    [] OTHER               -> rube_pc = "connected"

\* C15: with RUBE_API_KEY set, initialize_rube, search_tools,
\* execute_workflow on a list of tool objects and manage_connections each
\* report success: initialize returns True and registers exactly the four
\* RUBE tools, execute_workflow returns one "success" result per tool, in
\* order; without the key initialize returns False and registers no tool
C15_RubeSequenceSucceeds ==
  /\ rube_client.api_key => rube_pc \notin {"no_key", "init_failed"}
  /\ ~rube_client.api_key =>
       /\ rube_pc \in {"start", "no_key", "init_failed"}
       /\ rube_client.available_tools = {}
       /\ rube_pc = "init_failed" => rube_results = <<[args |-> JNull, result |-> False]>>
  /\ RubeDone("initialize") =>
       /\ rube_results[1].result = True
       /\ rube_client.available_tools =
            {"RUBE_SEARCH_TOOLS", "RUBE_MULTI_EXECUTE_TOOL", "RUBE_MANAGE_CONNECTIONS",
             "RUBE_CREATE_PLAN"}
  /\ RubeDone("search") => rube_results[2].result.v["success"] = True
  /\ RubeDone("execute") =>
       LET tools == rube_results[3].args.v
           out == rube_results[3].result.v
       IN /\ out["success"] = True
          /\ Len(out["results"].v) = Len(tools)
          /\ \A i \in 1..Len(tools) :
               /\ out["results"].v[i].v["status"] = JStr(<<"success">>)
               /\ out["results"].v[i].v["tool"] =
                    (IF "tool_slug" \in DOMAIN tools[i].v THEN tools[i].v["tool_slug"]
                     ELSE JStr(<<"unknown">>))
  /\ RubeDone("connect") => rube_results[4].result.v["success"] = True

C15_Witness ==
  /\ rube_pc = "connected"
  /\ Len(rube_results[3].args.v) = 2
  /\ rube_results[3].args.v[1] # rube_results[3].args.v[2]

\* C22: in start_both.py, under every interleaving of the agent thread and
\* the main thread, deploy.py is launched with working directory
\* agent-starter-python and pnpm dev with working directory
\* agent-starter-react: the os.chdir calls of the two threads never make
\* either command start in another directory
C22_CommandsStartInTheirDirectories ==
  /\ deploy_cwd # NotLaunched => deploy_cwd = AgentDir
  /\ pnpm_cwd # NotLaunched => pnpm_cwd = FrontendDir

\* C21: when check_prerequisites has passed and pnpm install has succeeded,
\* the sync step of setup_frontend succeeds: sync_env.py, started in the
\* frontend directory, reads the agent's .env.local that check_prerequisites
\* looked at and writes agent-starter-react/.env.local
C21_SyncStepSucceeds ==
  (setup.sync_ran /\ SyncReady) =>
    /\ setup.sync_source = AgentDir \o <<".env.local">>
    /\ setup.sync_exit = 0
    /\ setup.pc # "exited"
    /\ frontend_env = frontend_template(load_env_file(agent_env))

\* the position of a command among those deploy.py has started, 0 when it
\* has not started it
StartedAt(command) == FirstIndex(deploy.commands, command)

\* C23: deploy.py local starts the agent if and only if check_env_file
\* passed (the file exists and does not contain "your_") and the
\* setup_check.py subprocess exited with status 0; in every other case it
\* exits with status 1 before the agent is started; the env check precedes
\* the setup verification
C23_LocalStartsAgentOnlyWhenChecked ==
  deploy.mode = "local" =>
    /\ deploy.env_ok # "none" =>
         (deploy.env_ok = "True" <=> (agent_env # Missing /\ ~In(<<"your_">>, agent_env)))
    /\ StartedAt("src/agent.py start") # 0 =>
         (deploy.env_ok = "True" /\ deploy.setup_ran /\ deploy.returncode = 0)
    /\ (deploy.env_ok = "True" /\ deploy.setup_ran /\ deploy.returncode = 0) =>
         (StartedAt("src/agent.py start") # 0 \/ ENABLED DeployLocalAgent)
    /\ (\/ deploy.env_ok = "False"
        \/ "uv" \in deploy.failed
        \/ (deploy.setup_ran /\ deploy.returncode # 0)) =>
         (deploy.pc = "exited" /\ deploy.exit = 1 /\ StartedAt("src/agent.py start") = 0)
    /\ (deploy.setup_ran \/ "uv" \in deploy.failed) => deploy.env_ok = "True"
    /\ deploy.pc = "exited" => deploy.exit = 1

C23_Witness ==
  /\ deploy.mode = "local"
  /\ StartedAt("src/agent.py start") # 0
  /\ StartedAt("setup_check.py") # 0

\* C24: deploy.py docker: when docker --version fails the script reports
\* that Docker is not found and exits with status 1 without building or
\* running anything; when docker image inspect fails the image is built
\* before the container is run; the container is never run when the build
\* failed or when .env.local does not exist
C24_DockerModeOrder ==
  deploy.mode = "docker" =>
    /\ "docker --version" \in deploy.failed =>
         /\ deploy.reported
         /\ deploy.pc = "exited" /\ deploy.exit = 1
         /\ deploy.commands = <<"docker --version">>
    /\ ("docker image inspect" \in deploy.failed /\ deploy.pc # "build") =>
         /\ StartedAt("docker build") # 0
         /\ StartedAt("docker run") # 0 => StartedAt("docker build") < StartedAt("docker run")
    /\ "docker build" \in deploy.failed =>
         (StartedAt("docker run") = 0 /\ deploy.pc = "exited" /\ deploy.exit = 1)
    /\ agent_env = Missing => StartedAt("docker run") = 0
    /\ StartedAt("docker run") # 0 =>
         (StartedAt("docker --version") = 1 /\ StartedAt("docker image inspect") = 2)

C24_Witness ==
  /\ deploy.mode = "docker"
  /\ "docker image inspect" \in deploy.failed
  /\ StartedAt("docker run") # 0

\* a key that is not empty and has no '=', no '#', no whitespace and no
\* newline
KeyOk(key) == key # <<>> /\ \A i \in 1..Len(key) : key[i] \notin {"=", "#"} \cup Whitespace

\* a value without newline and without leading or trailing whitespace
ValueOk(value) ==
  /\ \A i \in 1..Len(value) : value[i] # "\n"
  /\ value # <<>> => (Head(value) \notin Whitespace /\ value[Len(value)] \notin Whitespace)

ItemsOk(items) == \A i \in 1..Len(items) : KeyOk(items[i][1]) /\ ValueOk(items[i][2])

\* C25: a mapping whose keys are non-empty without '=', '#', whitespace and
\* newline and whose values have no newline and no leading or trailing
\* whitespace, written by save_env_file without a template and read back by
\* load_env_file, comes back the same, a value containing '=' whole; and
\* when the file has a key twice, the last line wins
C25_EnvFileRoundTrip ==
  (loaded.done /\ env_text # Missing /\ ItemsOk(env_vars)) =>
    /\ appended = <<>> => loaded.vars = DictOf(env_vars)
    /\ appended # <<>> => loaded.vars = DictOf(Append(env_vars, appended))

\* the round trip of the mappings whose values have none of the characters
\* str.splitlines() breaks a line at
RoundTripWithoutLineBoundaries ==
  (/\ loaded.done /\ env_text # Missing /\ ItemsOk(env_vars)
   /\ \A i \in 1..Len(env_vars) : \A j \in 1..Len(env_vars[i][2]) :
        env_vars[i][2][j] \notin LineBoundaries) =>
    /\ appended = <<>> => loaded.vars = DictOf(env_vars)
    /\ appended # <<>> => loaded.vars = DictOf(Append(env_vars, appended))

====
